---- MODULE Spec2Model ----
(***************************************************************************)
(* Model of the action interpreter of src/action_automation.py             *)
(* (ActionAutomation), of the avatar keyword search it drives, and of the  *)
(* classification gateway of src/message_text_extractor.py                 *)
(* (MessageTextExtractor.contains_keyword / contains_any_keyword).         *)
(*                                                                         *)
(* A plan is an immutable list of action records that execute_action_plan  *)
(* reads once each, in order (enumerate at line 505).  The model draws the *)
(* record of a step when the loop reads it, and the plan ends where the    *)
(* loop finds no further record.                                           *)
(*                                                                         *)
(* Python dict fields that may be absent are sets with at most one         *)
(* element: {} is an absent key, {v} is the key bound to v.                *)
(***************************************************************************)
EXTENDS Integers, Sequences, FiniteSets, TLC

VARIABLES
    env,        \* module-level availability flags and the extractor's api key
    entry,      \* the entry point running: "none", "plan", "action", "find_keyword"
    pc,         \* position of the interpreter
    step,       \* index i of the loop at line 505 (0 before the first step)
    action,     \* the action record being executed
    invoked,    \* step indices execute_action was called for, in call order
    results,    \* value each step returned to the loop, in order
    result,     \* value returned by the last action: "True", "False", "Coords", "None"
    message,    \* what the last action printed when it ended
    clicks,     \* pointer clicks issued by the current action invocation
    lookup,     \* template lookups of the current Click: <<>> none, <<r>> one
                \* on template file r.file with best score r.best (0: no score)
    apc,        \* position inside execute_avatar_keyword_click_action
    attempt,    \* _current_scroll_attempt of the current (recursive) call
    passes,     \* search passes (find_avatars_with_templates calls) so far
    scrolls,    \* scroll gestures emitted so far
    detections, \* avatar_detections of the current pass (avatar confidences)
    idx,        \* loop index i at line 174 (0 outside the loop)
    classified, \* indices sent to the gateway in the current pass, in order
    verdict,    \* keyword_result of the last gateway call
    accepted,   \* index of the detection accepted by this invocation (0: none)
    captures,   \* chat captures taken in the current pass; the one of
                \* find_avatars_with_templates is number 1
    cropped,    \* number of the capture the last classified text region was
                \* cropped from (0: none classified in this pass)
    call,       \* input of the function under check (function specifications)
    ret,        \* its output
    heap,       \* the dict objects alive, by identity (index)
    ACTION_PLANS, \* identities of the records of the stored plan, in order
    runlog,     \* parameters and scroll retries of the plan runs so far
    substituted_plan, \* identities of the records of the running plan
    frame,      \* identity of the dict the running handler was given (0: none)
    ppc,        \* position of the plan run: "ready", "running", "in_action"
    pstep       \* records of the running plan already executed

interpVars == <<entry, pc, step, action, invoked, results, result, message, clicks>>
avatarVars == <<apc, attempt, passes, scrolls, detections, idx, classified,
                verdict, accepted, captures, cropped>>
planVars   == <<heap, ACTION_PLANS, runlog, substituted_plan, frame, ppc, pstep>>
fnVars     == <<call, ret, planVars>>
vars       == <<env, interpVars, avatarVars, fnVars, lookup>>

(***************************************************************************)
(* Bounds of the model.                                                    *)
(***************************************************************************)
MaxPlanLen         == 3
MaxScrollAttempts  == 2
MaxDetections      == 2
PlanScrollAttempts == 1
MaxImageSide       == 2
MaxDedupeLen       == 3
MaxCoord           == 4
MaxTextLen         == 2
MaxRuns            == 2
MaxMargin          == 1
MaxTableLen        == 2

(***************************************************************************)
(* Program constants.                                                      *)
(***************************************************************************)
DEFAULT_MAX_SCROLL_ATTEMPTS == 6
KEYWORD_CONFIDENCE_MIN      == 70
FALLBACK_CONFIDENCE_RELATED == 80
FALLBACK_CONFIDENCE_OTHER   == 20
HTTP_OK                     == 200
DEFAULT_MIN_DISTANCE        == 50
DEFAULT_CLICK_CONFIDENCE    == 80
CHAT_X1                     == 660
CHAT_Y1                     == 145
SCALE_FACTOR                == 2
CHAT_X2                     == 935
CHAT_Y2                     == 496
TEXT_AREA_OFFSET_X          == 10
TEXT_AREA_WIDTH             == 420
TEXT_AREA_HEIGHT            == 222

Absent == {}

\* dict.get(key, default)
Get(field, default) == IF field = {} THEN default ELSE CHOOSE v \in field : TRUE

(***************************************************************************)
(* Classification gateway: MessageTextExtractor.contains_keyword and       *)
(* contains_any_keyword (src/message_text_extractor.py).                   *)
(*                                                                         *)
(* The text the remote model answered with is a Content: an optional code  *)
(* fence around a payload that is a JSON object, another JSON value        *)
(* ("array") or text that is no JSON at all.  marker says whether the      *)
(* payload text holds one of the substrings the plain-text fallback looks  *)
(* for; a JSON object with a true field holds the substring "true".        *)
(***************************************************************************)
OptBool == {{}, {TRUE}, {FALSE}}
OptConf == {{}, {50}, {69}, {70}, {71}}
Fences  == {"none", "json", "json_unclosed", "generic", "generic_short"}

Payloads ==
    {p \in [kind : {"object"}, is_related : OptBool, is_related_to_any : OptBool,
            confidence : OptConf, marker : BOOLEAN] :
        (TRUE \in p.is_related \cup p.is_related_to_any) => p.marker}
    \cup [kind : {"array", "text"}, is_related : {Absent}, is_related_to_any : {Absent},
          confidence : {Absent}, marker : BOOLEAN]

Contents == [fence : Fences, payload : Payloads]

NoContent == [fence |-> "none",
              payload |-> [kind |-> "text", is_related |-> Absent,
                           is_related_to_any |-> Absent, confidence |-> Absent,
                           marker |-> FALSE]]

\* What requests.post gives back: an exception (connection error, timeout
\* after 30 s) or a response with a status code and a body.
Responses ==
    [net : {"connection_error", "timeout"}, status : {0}, shape : {"none"},
     content : {NoContent}]
    \cup [net : {"ok"}, status : {401, 500}, shape : {"none"}, content : {NoContent}]
    \cup [net : {"ok"}, status : {500}, shape : {"content"}, content : Contents]
    \cup [net : {"ok"}, status : {HTTP_OK}, shape : {"not_json", "no_choices"},
          content : {NoContent}]
    \cup [net : {"ok"}, status : {HTTP_OK}, shape : {"content"}, content : Contents]

\* The dict returned on every early exit and in the outer except clause.
FailureVerdict(key) ==
    [is_related        |-> IF key = "is_related" THEN {FALSE} ELSE Absent,
     is_related_to_any |-> IF key = "is_related_to_any" THEN {FALSE} ELSE Absent,
     confidence        |-> 0,
     error             |-> TRUE]

\* The dict built from a parsed JSON object: analysis.get(key, False),
\* analysis.get('confidence', 0).
AnalysisVerdict(key, p) ==
    [is_related        |-> IF key = "is_related"
                           THEN {Get(p.is_related, FALSE)} ELSE Absent,
     is_related_to_any |-> IF key = "is_related_to_any"
                           THEN {Get(p.is_related_to_any, FALSE)} ELSE Absent,
     confidence        |-> Get(p.confidence, 0),
     error             |-> FALSE]

\* except json.JSONDecodeError: the answer is read as plain text.
FallbackVerdict(key, marker) ==
    [is_related        |-> IF key = "is_related" THEN {marker} ELSE Absent,
     is_related_to_any |-> IF key = "is_related_to_any" THEN {marker} ELSE Absent,
     confidence        |-> IF marker THEN FALLBACK_CONFIDENCE_RELATED
                                     ELSE FALLBACK_CONFIDENCE_OTHER,
     error             |-> FALSE]

\* Code-fence removal before json.loads: a closed ```json fence and a
\* generic fence of more than two lines are removed, anything else stays.
StripFence(c) ==
    IF c.fence \in {"none", "json", "generic"} THEN c.payload.kind ELSE "text"

\* The try block around json.loads.
ParseAnalysis(key, c) ==
    CASE StripFence(c) = "object" -> AnalysisVerdict(key, c.payload)
      [] StripFence(c) = "array"  -> FailureVerdict(key)
      [] OTHER                    -> FallbackVerdict(key, c.payload.marker)

HandleResponse_mut(key, resp) ==
    IF resp.net # "ok" THEN FailureVerdict(key)
    ELSE IF resp.shape # "content" THEN FailureVerdict(key)
    ELSE ParseAnalysis(key, resp.content)

\* Handling of the value of requests.post.
HandleResponse(key, resp) ==
    IF resp.net # "ok" THEN FailureVerdict(key)
    ELSE IF resp.status # HTTP_OK THEN FailureVerdict(key)
    ELSE IF resp.shape # "content" THEN FailureVerdict(key)
    ELSE ParseAnalysis(key, resp.content)

\* Common body of contains_keyword (key "is_related") and
\* contains_any_keyword (key "is_related_to_any").
Classify(key, imageEmpty, apiKey, resp) ==
    IF imageEmpty THEN FailureVerdict(key)
    ELSE IF ~apiKey THEN FailureVerdict(key)
    ELSE HandleResponse(key, resp)

contains_keyword(imageEmpty, apiKey, resp) ==
    Classify("is_related", imageEmpty, apiKey, resp)

contains_any_keyword(imageEmpty, apiKey, resp) ==
    Classify("is_related_to_any", imageEmpty, apiKey, resp)

(***************************************************************************)
(* Configuration tables (src/config.py) and action records.                *)
(***************************************************************************)
\* COORDINATES: a name maps to a template path ("png") or to an (x, y)
\* pair ("pair").  "malformed" is a value that is neither (a path that
\* does not end in .png, a tuple of another length); the shipped table
\* holds none, a user-edited table may.
CoordinateNames == {"play_button", "any_place", "bad_entry"}
COORDINATES ==
    [n \in CoordinateNames |->
        CASE n = "play_button" -> "png"
          [] n = "any_place"   -> "pair"
          [] OTHER             -> "malformed"]

\* APPLICATION_PATHS keys.
ApplicationNames == {"mumu", "chrome"}

\* The 'coordinate' field: a string, a two-element list/tuple, or anything
\* else (absent, None, a number, a list of another length).
CoordinateFields ==
    [type : {"str"}, name : CoordinateNames \cup {"missing_name"}]
    \cup [type : {"pair", "other"}, name : {""}]

NoCoordinate == [type |-> "other", name |-> ""]

OptScroll == {Absent} \cup {{n} : n \in 0..MaxScrollAttempts}

BlankRecord ==
    [action |-> "none", coordinate |-> NoCoordinate, duration |-> Absent,
     app |-> Absent, keywords |-> <<>>, avatar_templates |-> <<>>,
     return_coordinates |-> Absent, max_scroll_attempts |-> Absent,
     confidence |-> Absent]

\* A confidence a record may carry, below the default.
LowerConfidence == DEFAULT_CLICK_CONFIDENCE - 1

\* A Click may carry its own 'confidence' (config.py line 27); the field
\* is read for a template coordinate only.
ClickRecords ==
    {[BlankRecord EXCEPT !.action = "click", !.coordinate = c] : c \in CoordinateFields}
    \cup {[BlankRecord EXCEPT !.action = "click",
                              !.coordinate = [type |-> "str", name |-> "play_button"],
                              !.confidence = {LowerConfidence}]}

WaitRecords ==
    {[BlankRecord EXCEPT !.action = "wait", !.duration = d] : d \in {Absent, {5}, {-1}}}

OpenAppRecords ==
    {[BlankRecord EXCEPT !.action = "open_app", !.app = a] :
        a \in {Absent, {"mumu"}, {"chrome"}, {"notes"}}}

OtherRecords ==
    {[BlankRecord EXCEPT !.action = t] : t \in {"open_mumu", "swipe"}}

KeywordFields  == {<<>>, <<"320">>, <<"320", "boss">>}
TemplateFields == {<<>>, <<"avatar1.png">>, <<"missing.png">>}

AvatarRecords ==
    {[BlankRecord EXCEPT !.action = "avatar_keyword_click", !.keywords = k,
                         !.avatar_templates = t, !.return_coordinates = r,
                         !.max_scroll_attempts = m] :
        k \in KeywordFields, t \in TemplateFields, r \in {Absent, {TRUE}},
        m \in OptScroll}

ActionRecords ==
    ClickRecords \cup WaitRecords \cup OpenAppRecords \cup OtherRecords
    \cup AvatarRecords

\* Records of the plans execute_action_plan runs: every record above, the
\* avatar searches with the list of the template that exists and at most
\* PlanScrollAttempts scroll attempts.
PlanRecords ==
    {a \in ActionRecords :
        a.action = "avatar_keyword_click" =>
            /\ a.avatar_templates = <<"avatar1.png">>
            /\ a.max_scroll_attempts \in {{n} : n \in 0..PlanScrollAttempts}}

(***************************************************************************)
(* Module-level flags set by the guarded imports, and the state built by   *)
(* ActionAutomation.__init__.  pyautogui is imported unguarded by          *)
(* find_coordinates and by avatar_message_block_detection, so without it   *)
(* neither of the two detection modules loads; the text extractor (and its *)
(* api key) exists only when the avatar modules loaded.                    *)
(***************************************************************************)
Envs ==
    {e \in [automation : BOOLEAN, icon_detection : BOOLEAN,
            avatar_keyword : BOOLEAN, api_key : BOOLEAN] :
        /\ ~e.automation => (~e.icon_detection /\ ~e.avatar_keyword)
        /\ ~e.avatar_keyword => ~e.api_key}

NoVerdict == [is_related |-> Absent, is_related_to_any |-> Absent,
              confidence |-> 0, error |-> FALSE]

NoCall == [fn |-> "none", imageEmpty |-> FALSE, apiKey |-> FALSE,
           resp |-> CHOOSE r \in Responses : r.net = "timeout", done |-> FALSE]

AvatarReset ==
    /\ apc' = "idle"
    /\ attempt' = 0
    /\ passes' = 0
    /\ scrolls' = 0
    /\ detections' = <<>>
    /\ idx' = 0
    /\ classified' = <<>>
    /\ verdict' = NoVerdict
    /\ accepted' = 0
    /\ captures' = 0
    /\ cropped' = 0

\* Nothing has been called yet.
Idle ==
    /\ entry = "none"
    /\ pc = "Ready"
    /\ step = 0
    /\ action = BlankRecord
    /\ invoked = <<>>
    /\ results = <<>>
    /\ result = "None"
    /\ message = "none"
    /\ clicks = 0
    /\ lookup = <<>>
    /\ apc = "idle"
    /\ attempt = 0
    /\ passes = 0
    /\ scrolls = 0
    /\ detections = <<>>
    /\ idx = 0
    /\ classified = <<>>
    /\ verdict = NoVerdict
    /\ accepted = 0
    /\ captures = 0
    /\ cropped = 0
    /\ substituted_plan = <<>>
    /\ runlog = <<>>
    /\ frame = 0
    /\ ppc = "ready"
    /\ pstep = 0

\* No plan is stored.
NoPlans ==
    /\ heap = <<>>
    /\ ACTION_PLANS = <<>>

Init ==
    /\ env \in Envs
    /\ Idle
    /\ NoPlans
    /\ call = NoCall
    /\ ret = NoVerdict

\* What a handler leaves alone in its caller.
callerVars == <<env, entry, step, action, invoked, results>>

(***************************************************************************)
(* execute_action_plan: the dispatch loop.                                 *)
(***************************************************************************)
Truthy_mut(r) == r # "None"

\* `if not self.execute_action(action)`: True and a coordinate dict are
\* truthy, False is not.
Truthy(r) == r \in {"True", "Coords"}

AfterStep_mut(r) == "Running"

\* What the loop does with the value a step returned (508-510).
AfterStep(r) == IF Truthy(r) THEN "Running" ELSE "Failed"

\* An action handler prints m and returns v to its caller.
Return(v, m) ==
    /\ result' = v
    /\ message' = m
    /\ pc' = "Returned"

\* An exception leaves the handler, execute_action and execute_action_plan.
Raise ==
    /\ result' = "None"
    /\ message' = "traceback"
    /\ pc' = "Raised"

\* execute_action_plan(plan_name): lookup of the plan (473-503).
execute_action_plan ==
    /\ pc = "Ready"
    /\ entry' = "plan"
    /\ \E known \in BOOLEAN :
        /\ pc' = IF known THEN "Running" ELSE "Failed"
        /\ message' = IF known THEN "starting" ELSE "unknown_plan"
    /\ UNCHANGED <<env, step, action, invoked, results, result, clicks>>
    /\ UNCHANGED avatarVars
    /\ UNCHANGED <<fnVars, lookup>>

\* The for loop reads the next record of the plan and calls execute_action
\* (505-508).  Plans of up to MaxPlanLen records are covered.
plan_dispatch ==
    /\ pc = "Running"
    /\ entry = "plan"
    /\ step < MaxPlanLen
    /\ \E a \in PlanRecords : action' = a
    /\ step' = step + 1
    /\ invoked' = Append(invoked, step + 1)
    /\ pc' = "InAction"
    /\ clicks' = 0
    /\ lookup' = <<>>
    /\ result' = "None"
    /\ message' = "none"
    /\ AvatarReset
    /\ UNCHANGED <<env, entry, results>>
    /\ UNCHANGED fnVars

\* `if not self.execute_action(action): return False` (508-510).
plan_step_returned ==
    /\ pc = "Returned"
    /\ entry = "plan"
    /\ results' = Append(results, result)
    /\ pc' = AfterStep(result)
    /\ UNCHANGED <<env, entry, step, action, invoked, result, message, clicks>>
    /\ UNCHANGED avatarVars
    /\ UNCHANGED <<fnVars, lookup>>

\* The plan has no further record: the loop ends, return True (512-514).
plan_completed ==
    /\ pc = "Running"
    /\ entry = "plan"
    /\ pc' = "Completed"
    /\ UNCHANGED <<env, entry, step, action, invoked, results, result, message, clicks>>
    /\ UNCHANGED avatarVars
    /\ UNCHANGED <<fnVars, lookup>>

\* execute_action(action) called on its own with one record (86-106).
execute_action ==
    /\ pc = "Ready"
    /\ entry' = "action"
    /\ \E a \in ActionRecords : action' = a
    /\ pc' = "InAction"
    /\ clicks' = 0
    /\ lookup' = <<>>
    /\ result' = "None"
    /\ message' = "none"
    /\ AvatarReset
    /\ UNCHANGED <<env, step, invoked, results>>
    /\ UNCHANGED fnVars

(***************************************************************************)
(* Coordinate conversion (src/find_coordinates.py 40-76).  A scaling       *)
(* factor is the fraction num/den; int() truncates toward zero.            *)
(***************************************************************************)
ScalingFactors ==
    {[num |-> 1, den |-> 1], [num |-> 2, den |-> 1], [num |-> 3, den |-> 1],
     [num |-> 3, den |-> 2], [num |-> 5, den |-> 4], [num |-> 7, den |-> 4]}

\* int(n / d) for d > 0
Trunc(n, d) == IF n >= 0 THEN n \div d ELSE -((-n) \div d)

\* Lines 54-55: int(logical * scaling_factor).
logical_to_physical_coords(x, y, f) ==
    <<Trunc(x * f.num, f.den), Trunc(y * f.num, f.den)>>

physical_to_logical_coords_mut(x, y, f) ==
    <<Trunc(x * f.num, f.den), Trunc(y * f.num, f.den)>>

\* Lines 73-74: int(physical / scaling_factor).
physical_to_logical_coords(x, y, f) ==
    <<Trunc(x * f.den, f.num), Trunc(y * f.den, f.num)>>

(***************************************************************************)
(* Template matching: find_avatar_by_template                              *)
(* (src/avatar_message_block_detection.py 56-107) and find_icon_coordinates,*)
(* find_all_icon_coordinates, find_icon_coordinates_scaled                 *)
(* (src/find_coordinates.py).  Scores and thresholds are in percent.       *)
(***************************************************************************)
Sizes      == [w : 1..MaxImageSide, h : 1..MaxImageSide]
Scores     == {79, 80}
Thresholds == {79, 80, 81}

\* A capture and a template of one pixel each.
FitCase == [w |-> 1, h |-> 1]

Fits(img, t)   == t.w <= img.w /\ t.h <= img.h
Covers(img, t) == t.w >= img.w /\ t.h >= img.h

\* A result of cv2.matchTemplate: one score per placement, row by row.
ScoreMaps(w, h) ==
    [raised : {FALSE}, w : {w}, h : {h}, score : [1..(w * h) -> Scores]]

CvError == [raised |-> TRUE, w |-> 0, h |-> 0, score |-> <<>>]

\* cv2.matchTemplate(image, templ, cv2.TM_CCOEFF_NORMED).  A template that
\* fits gives (W-w+1) x (H-h+1) scores.  A template larger than the image
\* in one dimension only fails the library's size assertion (cv2.error).
\* A template at least as large in both dimensions is, depending on the
\* OpenCV build, rejected the same way or matched with the two arguments
\* swapped.
matchTemplate(img, t) ==
    IF Fits(img, t) THEN ScoreMaps(img.w - t.w + 1, img.h - t.h + 1)
    ELSE IF Covers(img, t)
    THEN ScoreMaps(t.w - img.w + 1, t.h - img.h + 1) \cup {CvError}
    ELSE {CvError}

MeetsConfidence_mut(s, c) == s > c

\* `result >= confidence` (lines 85 and 250); the best match is rejected
\* by `max_val < confidence` (lines 201 and 410).
MeetsConfidence(s, c) == s >= c

\* Placement k of a result, as (x, y) of the top-left corner.
PosX(res, k) == (k - 1) % res.w
PosY(res, k) == (k - 1) \div res.w

\* np.where(result >= confidence), zipped to points: row-major order.
Hits(res, c) ==
    SelectSeq([k \in 1..(res.w * res.h) |-> k],
              LAMBDA k : MeetsConfidence(res.score[k], c))

\* Lines 92-101 (avatar) and 255-257 (icon): the detection at placement k.
Detection(res, t, k) ==
    [x          |-> PosX(res, k),
     y          |-> PosY(res, k),
     confidence |-> res.score[k],
     center_x   |-> PosX(res, k) + (t.w \div 2),
     center_y   |-> PosY(res, k) + (t.h \div 2)]

AllDetections(res, t, c) ==
    [i \in 1..Len(Hits(res, c)) |-> Detection(res, t, Hits(res, c)[i])]

\* cv2.minMaxLoc: the maximum and the first placement that has it.
MaxVal(res) ==
    CHOOSE m \in Scores :
        /\ \E k \in DOMAIN res.score : res.score[k] = m
        /\ \A k \in DOMAIN res.score : res.score[k] <= m

MaxLoc(res) ==
    CHOOSE k \in DOMAIN res.score :
        /\ res.score[k] = MaxVal(res)
        /\ \A j \in DOMAIN res.score : res.score[j] = MaxVal(res) => k <= j

NoDetections == [raised |-> FALSE, found |-> <<>>]
Raised       == [raised |-> TRUE, found |-> <<>>]

find_avatar_by_template_mut(file, t, c, res) ==
    IF res.raised THEN Raised
    ELSE [raised |-> FALSE, found |-> AllDetections(res, t, c)]

\* find_avatar_by_template (56-107): no try block around the matching.
\* file is "missing" (os.path.exists fails), "unreadable" (cv2.imread gives
\* None) or "ok".
find_avatar_by_template(file, t, c, res) ==
    IF file # "ok" THEN NoDetections
    ELSE IF res.raised THEN Raised
    ELSE [raised |-> FALSE, found |-> AllDetections(res, t, c)]

\* find_all_icon_coordinates (218-267): the centers; every exception is
\* caught and gives [].
find_all_icon_coordinates(file, t, c, res) ==
    IF file # "ok" THEN NoDetections
    ELSE IF res.raised THEN NoDetections
    ELSE [raised |-> FALSE,
          found  |-> [i \in 1..Len(Hits(res, c)) |->
                         [center_x |-> AllDetections(res, t, c)[i].center_x,
                          center_y |-> AllDetections(res, t, c)[i].center_y]]]

\* find_icon_coordinates (154-215): the center of the best match or None
\* (an empty found); every exception is caught and gives None.
find_icon_coordinates(file, t, c, res) ==
    IF file # "ok" THEN NoDetections
    ELSE IF res.raised THEN NoDetections
    ELSE IF ~MeetsConfidence(MaxVal(res), c) THEN NoDetections
    ELSE [raised |-> FALSE,
          found  |-> <<[center_x |-> Detection(res, t, MaxLoc(res)).center_x,
                        center_y |-> Detection(res, t, MaxLoc(res)).center_y]>>]

ToLogical_mut(d, f) == d

\* Lines 418-421: the physical center is converted for the mouse.
ToLogical(d, f) ==
    [center_x |-> physical_to_logical_coords(d.center_x, d.center_y, f)[1],
     center_y |-> physical_to_logical_coords(d.center_x, d.center_y, f)[2]]

\* find_icon_coordinates_scaled (362-437): as find_icon_coordinates, with
\* the center converted to logical coordinates by the detected factor f.
find_icon_coordinates_scaled(file, t, c, res, f) ==
    IF find_icon_coordinates(file, t, c, res).found = <<>> THEN NoDetections
    ELSE [raised |-> FALSE,
          found  |-> <<ToLogical(find_icon_coordinates(file, t, c, res).found[1], f)>>]

(***************************************************************************)
(* execute_action handlers other than the avatar keyword search.           *)
(***************************************************************************)
ResolveCoordinate_mut(e, c, det) ==
    IF c.type = "str"
    THEN IF c.name \in DOMAIN COORDINATES
         THEN CASE COORDINATES[c.name] = "png" ->
                       IF ~e.icon_detection THEN "no_icon_detection"
                       ELSE IF det = "found" THEN "point" ELSE "icon_not_detected"
                [] COORDINATES[c.name] = "pair" -> "point"
                [] OTHER -> "raise"
         ELSE "point"
    ELSE IF c.type = "pair" THEN "point"
    ELSE "invalid_coordinate"

\* Resolution of the click target (337-382): "point" when x, y are bound,
\* "raise" when the tuple unpacking at line 373 raises outside every try
\* block, else the failure the handler reports before it returns False.
\* det is what find_icon_coordinates_scaled returns ("found" or "none").
ResolveCoordinate(e, c, det) ==
    IF c.type = "str"
    THEN IF c.name \in DOMAIN COORDINATES
         THEN CASE COORDINATES[c.name] = "png" ->
                       IF ~e.icon_detection THEN "no_icon_detection"
                       ELSE IF det = "found" THEN "point" ELSE "icon_not_detected"
                [] COORDINATES[c.name] = "pair" -> "point"
                [] OTHER -> "raise"
         ELSE "unknown_coordinate"
    ELSE IF c.type = "pair" THEN "point"
    ELSE "invalid_coordinate"

ClickConfidence_mut(a) == LowerConfidence

\* Line 350: `confidence = action.get('confidence', 0.8)`, in percent.
ClickConfidence(a) == Get(a.confidence, DEFAULT_CLICK_CONFIDENCE)

\* Lines 338-347: the handler reaches the call of
\* find_icon_coordinates_scaled at line 356.
NeedsLookup(e, c) ==
    /\ e.automation
    /\ c.type = "str"
    /\ c.name \in DOMAIN COORDINATES
    /\ COORDINATES[c.name] = "png"
    /\ e.icon_detection

\* The state of a template file on disk.
TemplateFiles == {"ok", "missing", "unreadable"}

\* What one call of find_icon_coordinates_scaled met: the state of the
\* template file and the best score of the match, 0 when no score was
\* computed (no template loaded, or the capture or the matching raised and
\* was caught at line 435 of find_coordinates.py).
LookupRecord(file, res) ==
    [file |-> file,
     best |-> IF file = "ok" /\ ~res.raised THEN MaxVal(res) ELSE 0]

\* execute_click_action (331-393).  file and res are the template file and
\* the match result the lookup meets, on a capture the template fits;
\* clk is the outcome of pyautogui.click.
execute_click_action ==
    /\ pc = "InAction"
    /\ action.action = "click"
    /\ \E file \in TemplateFiles, res \in ScoreMaps(1, 1) \cup {CvError},
          clk \in {"ok", "raise"} :
        LET coords == find_icon_coordinates_scaled(
                          file, FitCase, ClickConfidence(action), res,
                          [num |-> 1, den |-> 1])
            target == ResolveCoordinate(env, action.coordinate,
                          IF coords.found # <<>> THEN "found" ELSE "none")
        IN
        /\ lookup' = IF NeedsLookup(env, action.coordinate)
                      THEN <<LookupRecord(file, res)>> ELSE <<>>
        /\ IF ~env.automation
           THEN Return("False", "cannot_click") /\ clicks' = clicks
           ELSE CASE target = "point" ->
                       IF clk = "ok"
                       THEN Return("True", "clicked") /\ clicks' = clicks + 1
                       ELSE Return("False", "click_failed") /\ clicks' = clicks
                  [] target = "raise" -> Raise /\ clicks' = clicks
                  [] OTHER -> Return("False", target) /\ clicks' = clicks
    /\ UNCHANGED callerVars
    /\ UNCHANGED avatarVars
    /\ UNCHANGED fnVars

\* execute_wait_action (396-408): time.sleep raises ValueError for a
\* negative duration, which the handler catches.
execute_wait_action ==
    /\ pc = "InAction"
    /\ action.action = "wait"
    /\ IF Get(action.duration, 1) >= 0
       THEN Return("True", "wait_completed")
       ELSE Return("False", "wait_failed")
    /\ UNCHANGED callerVars
    /\ UNCHANGED clicks
    /\ UNCHANGED avatarVars
    /\ UNCHANGED <<fnVars, lookup>>

\* Outcome of subprocess.run(["open", path], check=True) inside
\* `try ... except subprocess.CalledProcessError`: the launcher exits 0,
\* exits non-zero (CalledProcessError), or cannot be started (OSError).
LaunchOutcomes == {"ok", "CalledProcessError", "OSError"}

Launch(outcome) ==
    CASE outcome = "ok"                 -> Return("True", "launched")
      [] outcome = "CalledProcessError" -> Return("False", "launch_failed")
      [] OTHER                          -> Raise

\* execute_open_app_action (410-446).
execute_open_app_action ==
    /\ pc = "InAction"
    /\ action.action = "open_app"
    /\ \E exists \in BOOLEAN, outcome \in LaunchOutcomes :
        IF action.app = Absent THEN Return("False", "no_app")
        ELSE IF Get(action.app, "") \notin ApplicationNames
        THEN Return("False", "unknown_app")
        ELSE IF ~exists THEN Return("False", "app_not_found")
        ELSE Launch(outcome)
    /\ UNCHANGED callerVars
    /\ UNCHANGED clicks
    /\ UNCHANGED avatarVars
    /\ UNCHANGED <<fnVars, lookup>>

\* open_mumu (65-84), the legacy 'open_mumu' action type.  mumu_path is
\* what find_mumu_path (58-63) found: a path, or None.
open_mumu ==
    /\ pc = "InAction"
    /\ action.action = "open_mumu"
    /\ \E mumu_path \in BOOLEAN, outcome \in LaunchOutcomes :
        IF ~mumu_path THEN Return("False", "app_not_found") ELSE Launch(outcome)
    /\ UNCHANGED callerVars
    /\ UNCHANGED clicks
    /\ UNCHANGED avatarVars
    /\ UNCHANGED <<fnVars, lookup>>

ActionTypes == {"click", "avatar_keyword_click", "wait", "open_app", "open_mumu"}

\* The else branch of execute_action (104-106).
unknown_action_type ==
    /\ pc = "InAction"
    /\ action.action \notin ActionTypes
    /\ Return("False", "unknown_action")
    /\ UNCHANGED callerVars
    /\ UNCHANGED clicks
    /\ UNCHANGED avatarVars
    /\ UNCHANGED <<fnVars, lookup>>

(***************************************************************************)
(* execute_avatar_keyword_click_action and its scroll-retry helper.        *)
(***************************************************************************)
\* Avatar confidences (in percent) of the detections one pass returns, in
\* the order find_avatars_with_templates returns them.  The lists drawn
\* hold one best-scoring detection, at any position.
DetConfs == {80, 95}

DetectionLists ==
    {d \in UNION {[1..n -> DetConfs] : n \in 0..MaxDetections} :
        Cardinality({i \in DOMAIN d : d[i] = 95}) = IF d = <<>> THEN 0 ELSE 1}

\* Gateway answers drawn during a scan: every failure kind, plain text with
\* and without a marker, and JSON objects around the acceptance threshold.
ScanResponses ==
    {r \in Responses :
        /\ r.status # 401
        /\ r.status # HTTP_OK => r.shape = "none"
        /\ r.shape = "content" =>
            /\ r.content.fence = "none"
            /\ r.content.payload.kind = "array" => ~r.content.payload.marker
            /\ r.content.payload.kind = "object" =>
                /\ r.content.payload.is_related \in {{TRUE}, {FALSE}}
                /\ r.content.payload.is_related_to_any = r.content.payload.is_related
                /\ r.content.payload.confidence # Absent
                /\ r.content.payload.marker
                /\ r.content.payload.is_related = {FALSE} =>
                        r.content.payload.confidence = {71}}

\* Line 199.
IsRelated(v) == Get(v.is_related, FALSE) \/ Get(v.is_related_to_any, FALSE)

MeetsThreshold_mut(v) == IsRelated(v) /\ v.confidence > KEYWORD_CONFIDENCE_MIN

\* Line 210: `if is_related and confidence_score >= 70`.
MeetsThreshold(v) == IsRelated(v) /\ v.confidence >= KEYWORD_CONFIDENCE_MIN

\* Line 152.
MaxScroll(a) == Get(a.max_scroll_attempts, DEFAULT_MAX_SCROLL_ATTEMPTS)

ScrollsRemain_mut(a, att) == att <= MaxScroll(a)

\* Lines 167 and 286: `if current_scroll_attempt < max_scroll_attempts`.
ScrollsRemain(a, att) == att < MaxScroll(a)

\* Lines 193-196: one keyword goes to contains_keyword, several to
\* contains_any_keyword.
KeywordResult(a, imageEmpty, apiKey, resp) ==
    IF Len(a.keywords) = 1
    THEN contains_keyword(imageEmpty, apiKey, resp)
    ELSE contains_any_keyword(imageEmpty, apiKey, resp)

\* Lines 269-276: what an accepted detection returns after the click.
AcceptedResult(a) ==
    IF Get(a.return_coordinates, FALSE) THEN "Coords" ELSE "True"

\* The action prints m and returns v: its frames are left.
AvatarReturn(v, m) ==
    /\ Return(v, m)
    /\ apc' = "done"

\* The action goes on at position p.
AvatarGoOn(p) ==
    /\ apc' = p
    /\ UNCHANGED <<pc, result, message>>

NothingQualified_mut(m) == AvatarGoOn("scroll")

\* A pass ends without a qualifying detection (165-169 and 284-290).
NothingQualified(m) ==
    IF ScrollsRemain(action, attempt)
    THEN AvatarGoOn("scroll")
    ELSE AvatarReturn("False", m)

KeywordsGiven_mut(a) == TRUE

\* Lines 132-133: `if not keywords` is true for a missing key, None, an
\* empty string and an empty list.
KeywordsGiven(a) == a.keywords # <<>>

\* Parameter checks and template discovery (123-153).  discovered is
\* whether list_available_templates returns a non-empty list.
avatar_begin ==
    /\ pc = "InAction"
    /\ action.action = "avatar_keyword_click"
    /\ apc = "idle"
    /\ \E discovered \in BOOLEAN :
        IF ~env.avatar_keyword THEN AvatarReturn("False", "unavailable")
        ELSE IF ~KeywordsGiven(action) THEN AvatarReturn("False", "no_keywords")
        ELSE IF action.avatar_templates = <<>> /\ ~discovered
        THEN AvatarReturn("False", "no_templates")
        ELSE AvatarGoOn("search")
    /\ UNCHANGED callerVars
    /\ UNCHANGED clicks
    /\ UNCHANGED <<attempt, passes, scrolls, detections, idx, classified,
                   verdict, accepted, captures, cropped>>
    /\ UNCHANGED <<fnVars, lookup>>

\* Of the template files a record may name, "missing.png" does not exist.
TemplateFile(name) == IF name = "missing.png" THEN "missing" ELSE "ok"

\* What find_avatars_with_templates (202-264) may return for a template
\* list: when find_avatar_by_template returns no detection for every
\* template of a given list, whatever the capture shows, all_detections
\* stays empty; otherwise any detection list.  An empty list was replaced
\* by the files found in the template directory.
FoundLists(templates) ==
    IF /\ templates # <<>>
       /\ \A i \in DOMAIN templates, c \in Thresholds, res \in ScoreMaps(1, 1) :
              find_avatar_by_template(TemplateFile(templates[i]), FitCase, c, res)
                  = NoDetections
    THEN {<<>>}
    ELSE DetectionLists

\* One search pass: find_avatars_with_templates (163-171).  The call may
\* raise (screen capture, template matching); line 292 catches it.
avatar_search ==
    /\ pc = "InAction"
    /\ apc = "search"
    /\ passes' = passes + 1
    /\ \/ /\ AvatarReturn("False", "exception")
          /\ UNCHANGED <<detections, idx, captures>>
       \/ \E dets \in FoundLists(action.avatar_templates) :
            /\ detections' = dets
            /\ captures' = 1
            /\ IF dets = <<>>
               THEN /\ idx' = 0
                    /\ NothingQualified("no_avatars")
               ELSE /\ idx' = 1
                    /\ AvatarGoOn("scan")
    /\ UNCHANGED callerVars
    /\ UNCHANGED clicks
    /\ UNCHANGED <<attempt, scrolls, classified, verdict, accepted, cropped>>
    /\ UNCHANGED <<fnVars, lookup>>

AcceptCandidate_mut(clk) ==
    /\ accepted' = idx
    /\ IF clk = "ok" THEN clicks' = clicks + 1 ELSE clicks' = clicks
    /\ IF idx < Len(detections)
       THEN /\ idx' = idx + 1
            /\ AvatarGoOn("scan")
       ELSE /\ idx' = idx
            /\ AvatarReturn(AcceptedResult(action), "clicked")

AcceptCandidate_fails_mut(clk) ==
    /\ accepted' = idx
    /\ idx' = idx
    /\ clicks' = clicks + 1
    /\ AvatarReturn("False", "exception")

\* Lines 210-276: the detection at idx is accepted; the avatar is clicked
\* (line 266), then the coordinate dict or True is returned.  A click that
\* raises is caught at line 292.
AcceptCandidate(clk) ==
    /\ accepted' = idx
    /\ idx' = idx
    /\ IF clk = "ok"
       THEN /\ clicks' = clicks + 1
            /\ AvatarReturn(AcceptedResult(action), "clicked")
       ELSE /\ clicks' = clicks
            /\ AvatarReturn("False", "exception")

SkipCandidate_mut ==
    /\ UNCHANGED <<accepted, clicks, idx>>
    /\ AvatarReturn("False", "exhausted")

\* Lines 277-290: the detection at idx is skipped; the loop goes to the
\* next one, and after the last one to the code below the loop.
SkipCandidate ==
    /\ UNCHANGED <<accepted, clicks>>
    /\ IF idx < Len(detections)
       THEN /\ idx' = idx + 1
            /\ AvatarGoOn("scan")
       ELSE /\ idx' = idx
            /\ NothingQualified("exhausted")

\* capture_chat_region() (line 183) takes a capture of its own: its number,
\* after n captures of the pass.
capture_chat_region(n) == n + 1

\* One iteration of the loop at line 174 for detection idx: capture and
\* crop the text area (182-190, may raise), ask the gateway (193-196),
\* then accept or skip.
avatar_scan ==
    /\ pc = "InAction"
    /\ apc = "scan"
    /\ idx \in 1..Len(detections)
    /\ \/ /\ AvatarReturn("False", "exception")
          /\ UNCHANGED <<idx, classified, verdict, accepted, clicks, captures,
                         cropped>>
       \/ \E imageEmpty \in BOOLEAN, resp \in ScanResponses, clk \in {"ok", "raise"} :
            LET v == KeywordResult(action, imageEmpty, env.api_key, resp) IN
            /\ captures' = capture_chat_region(captures)
            /\ cropped' = capture_chat_region(captures)
            /\ verdict' = v
            /\ classified' = Append(classified, idx)
            /\ IF MeetsThreshold(v)
               THEN AcceptCandidate(clk)
               ELSE clk = "ok" /\ SkipCandidate
    /\ UNCHANGED callerVars
    /\ UNCHANGED <<attempt, passes, scrolls, detections>>
    /\ UNCHANGED <<fnVars, lookup>>

\* _scroll_and_retry_keyword_search (296-329): scroll, then call the
\* action again with _current_scroll_attempt + 1.
ScrollFailed_mut(m) ==
    /\ message' = m
    /\ apc' = "search"
    /\ UNCHANGED <<pc, result>>

\* Lines 298-300 and 327-329: the helper prints m and returns False, which
\* the action returns to its caller (lines 168 and 287).
ScrollFailed(m) == AvatarReturn("False", m)

scroll_and_retry_keyword_search ==
    /\ pc = "InAction"
    /\ apc = "scroll"
    /\ \E scr \in {"ok", "raise"} :
        IF ~env.automation
        THEN /\ ScrollFailed("cannot_scroll")
             /\ UNCHANGED <<scrolls, attempt, detections, idx, classified, verdict,
                            captures, cropped>>
        ELSE IF scr = "raise"
        THEN /\ ScrollFailed("scroll_failed")
             /\ UNCHANGED <<scrolls, attempt, detections, idx, classified, verdict,
                            captures, cropped>>
        ELSE \* the retry runs in a new frame with fresh locals
             /\ scrolls' = scrolls + 1
             /\ attempt' = attempt + 1
             /\ detections' = <<>>
             /\ idx' = 0
             /\ classified' = <<>>
             /\ verdict' = NoVerdict
             /\ captures' = 0
             /\ cropped' = 0
             /\ AvatarGoOn("search")
    /\ UNCHANGED callerVars
    /\ UNCHANGED clicks
    /\ UNCHANGED <<passes, accepted>>
    /\ UNCHANGED <<fnVars, lookup>>

\* find_avatar_coordinates_for_keyword (448-469), the --find-keyword entry:
\* it builds an action record with return_coordinates True and runs it.
find_avatar_coordinates_for_keyword ==
    /\ pc = "Ready"
    /\ entry' = "find_keyword"
    /\ \E k \in KeywordFields, t \in TemplateFields :
        action' = [BlankRecord EXCEPT !.action = "avatar_keyword_click",
                                      !.keywords = k, !.avatar_templates = t,
                                      !.return_coordinates = {TRUE}]
    /\ pc' = "InAction"
    /\ clicks' = 0
    /\ lookup' = <<>>
    /\ result' = "None"
    /\ message' = "none"
    /\ AvatarReset
    /\ UNCHANGED <<env, step, invoked, results>>
    /\ UNCHANGED fnVars

Next ==
    \/ execute_action_plan
    \/ execute_action
    \/ find_avatar_coordinates_for_keyword
    \/ plan_dispatch
    \/ plan_step_returned
    \/ plan_completed
    \/ execute_click_action
    \/ execute_wait_action
    \/ execute_open_app_action
    \/ open_mumu
    \/ unknown_action_type
    \/ avatar_begin
    \/ avatar_search
    \/ avatar_scan
    \/ scroll_and_retry_keyword_search

Spec == Init /\ [][Next]_vars

(***************************************************************************)
(* The gateway functions on their own: every call of contains_keyword and  *)
(* contains_any_keyword with every answer of the remote service.           *)
(***************************************************************************)
GatewayCalls ==
    [fn : {"contains_keyword", "contains_any_keyword"}, imageEmpty : BOOLEAN,
     apiKey : BOOLEAN, resp : Responses, done : {FALSE}]

InitGateway ==
    /\ env = [automation |-> TRUE, icon_detection |-> TRUE,
              avatar_keyword |-> TRUE, api_key |-> TRUE]
    /\ Idle
    /\ NoPlans
    /\ call \in GatewayCalls
    /\ ret = NoVerdict

gateway_call ==
    /\ call.fn # "none"
    /\ ~call.done
    /\ call' = [call EXCEPT !.done = TRUE]
    /\ ret' = IF call.fn = "contains_keyword"
              THEN contains_keyword(call.imageEmpty, call.apiKey, call.resp)
              ELSE contains_any_keyword(call.imageEmpty, call.apiKey, call.resp)
    /\ UNCHANGED <<env, lookup, interpVars, avatarVars, planVars>>

NextGateway == gateway_call

SpecGateway == InitGateway /\ [][NextGateway]_vars

(***************************************************************************)
(* remove_duplicate_detections                                             *)
(* (src/avatar_message_block_detection.py 266-299).  A detection is the    *)
(* center and the confidence of its 'avatar' entry.                        *)
(***************************************************************************)
AvatarDetections ==
    [center_x : {0, 30, 60}, center_y : {0, 40}, confidence : {80, 90}]

MinDistances == {35, DEFAULT_MIN_DISTANCE}

TooClose_mut(a, b, md) == FALSE

\* Lines 283-286: np.sqrt(dx**2 + dy**2) < min_distance.
TooClose(a, b, md) ==
    /\ md > 0
    /\ (a.center_x - b.center_x) * (a.center_x - b.center_x)
         + (a.center_y - b.center_y) * (a.center_y - b.center_y) < md * md

\* The inner loop (279-293) stops at the first kept detection that is too
\* close: its index, 0 when there is none.
FirstClose(unique, d, md) ==
    IF \E j \in DOMAIN unique : TooClose(d, unique[j], md)
    THEN CHOOSE j \in DOMAIN unique :
            /\ TooClose(d, unique[j], md)
            /\ \A i \in DOMAIN unique : TooClose(d, unique[i], md) => j <= i
    ELSE 0

\* list.remove of the element at index j
RemoveAt(seq, j) == SubSeq(seq, 1, j - 1) \o SubSeq(seq, j + 1, Len(seq))

\* One iteration of the loop at line 275.
Absorb(unique, d, md) ==
    IF FirstClose(unique, d, md) = 0 THEN Append(unique, d)
    ELSE IF d.confidence > unique[FirstClose(unique, d, md)].confidence
    THEN Append(RemoveAt(unique, FirstClose(unique, d, md)), d)
    ELSE unique

RECURSIVE Accumulate(_, _, _)
Accumulate(unique, ds, md) ==
    IF ds = <<>> THEN unique
    ELSE Accumulate(Absorb(unique, Head(ds), md), Tail(ds), md)

remove_duplicate_detections(ds, md) ==
    IF Len(ds) <= 1 THEN ds ELSE Accumulate(<<>>, ds, md)

(***************************************************************************)
(* The point execute_avatar_keyword_click_action clicks                    *)
(* (src/action_automation.py 225-266): click_coords are physical pixels    *)
(* relative to the captured chat region.                                   *)
(***************************************************************************)
CoordinatesResult_mut(rel_x, rel_y) ==
    [physical_x |-> (CHAT_X1 * SCALE_FACTOR) + rel_x,
     physical_y |-> (CHAT_Y1 * SCALE_FACTOR) + rel_y,
     x          |-> (CHAT_X1 * SCALE_FACTOR) + rel_x,
     y          |-> (CHAT_Y1 * SCALE_FACTOR) + rel_y]

\* Lines 235-246: the coordinate dict.
CoordinatesResult(rel_x, rel_y) ==
    [physical_x |-> (CHAT_X1 * SCALE_FACTOR) + rel_x,
     physical_y |-> (CHAT_Y1 * SCALE_FACTOR) + rel_y,
     x          |-> ((CHAT_X1 * SCALE_FACTOR) + rel_x) \div SCALE_FACTOR,
     y          |-> ((CHAT_Y1 * SCALE_FACTOR) + rel_y) \div SCALE_FACTOR]

\* Line 266: pyautogui.click(logical_x, logical_y).
AvatarClickPoint(rel_x, rel_y) ==
    [coordinates |-> CoordinatesResult(rel_x, rel_y),
     clicked     |-> <<CoordinatesResult(rel_x, rel_y).x,
                       CoordinatesResult(rel_x, rel_y).y>>]

\* execute_click_action on a named template (345-388): the point
\* find_icon_coordinates_scaled returns is unpacked and clicked as it is;
\* nothing is clicked when it returns None.
TemplateClick(file, t, c, res, f) ==
    IF find_icon_coordinates_scaled(file, t, c, res, f).found = <<>>
    THEN [clicked |-> <<>>]
    ELSE [clicked |->
            <<find_icon_coordinates_scaled(file, t, c, res, f).found[1].center_x,
              find_icon_coordinates_scaled(file, t, c, res, f).found[1].center_y>>]

(***************************************************************************)
(* Parameter substitution of execute_action_plan                           *)
(* (src/action_automation.py 479-495).  A string is a sequence of tokens:  *)
(* a placeholder "{k}", "{m}", "{u}" or a piece of other text; a field     *)
(* value is a string, or a value of another type (number, list) that       *)
(* holds, and prints as, its text.                                         *)
(***************************************************************************)
ParamKeys == {"k", "m"}

\* f'{{{param_key}}}' (line 490)
Placeholder(key) == "{" \o key \o "}"

Tokens == {"a", "{u}"} \cup {Placeholder(key) : key \in ParamKeys}

Texts == UNION {[1..n -> Tokens] : n \in 0..MaxTextLen}

FieldValues ==
    [type : {"str"}, text : Texts]
    \cup [type : {"num"}, text : {<<"320">>}]
    \cup [type : {"list"}, text : {<<"{k}">>}]

ParamValues ==
    [type : {"str"}, text : {<<"x">>, <<"{k}">>, <<"{m}">>}]
    \cup [type : {"num"}, text : {<<"320">>}]

\* A parameters dict in its iteration order: pairs with distinct keys.
ParamMaps ==
    {<<>>}
    \cup {<<[key |-> a, value |-> v]>> : a \in ParamKeys, v \in ParamValues}
    \cup {pm \in [1..2 -> [key : ParamKeys, value : ParamValues]] :
             pm[1].key # pm[2].key}

RECURSIVE Replace_mut(_, _, _)
Replace_mut(text, ph, new) ==
    IF text = <<>> THEN <<>>
    ELSE IF Head(text) = ph THEN new \o Tail(text)
    ELSE <<Head(text)>> \o Replace_mut(Tail(text), ph, new)

RECURSIVE Replace(_, _, _)
\* str.replace(placeholder, new): every occurrence, left to right; the
\* text put in is not searched again.
Replace(text, ph, new) ==
    IF text = <<>> THEN <<>>
    ELSE IF Head(text) = ph THEN new \o Replace(Tail(text), ph, new)
    ELSE <<Head(text)>> \o Replace(Tail(text), ph, new)

RECURSIVE SubstituteText(_, _)
\* Lines 488-491: one replace per parameter, in the order of the dict, each
\* on the result of the one before.
SubstituteText(text, params) ==
    IF params = <<>> THEN text
    ELSE SubstituteText(
             Replace(text, Placeholder(Head(params).key), Head(params).value.text),
             Tail(params))

\* Lines 486-494: only a str value is substituted.
SubstituteValue(v, params) ==
    IF v.type = "str" THEN [type |-> "str", text |-> SubstituteText(v.text, params)]
    ELSE v

(***************************************************************************)
(* analyze_text_area_right_of_avatar                                       *)
(* (src/avatar_message_block_detection.py 109-169) on a capture of         *)
(* chat_width x chat_height pixels and the box of a detection.             *)
(***************************************************************************)
ClipTo_mut(size, origin, limit) == size

\* Lines 132-135: `if origin + size > limit: size = limit - origin`.
ClipTo(size, origin, limit) ==
    IF origin + size > limit THEN limit - origin ELSE size

\* Lines 120-155.  The slice of line 138 is empty when a size is not
\* positive; cv2.cvtColor (line 141) raises on an empty image.
analyze_text_area_right_of_avatar(chat_width, chat_height, avatar) ==
    LET text_x      == avatar.x + avatar.width + TEXT_AREA_OFFSET_X
        text_y      == avatar.y
        min_width   == IF TEXT_AREA_WIDTH <= chat_width - text_x
                       THEN TEXT_AREA_WIDTH ELSE chat_width - text_x
        text_width  == ClipTo(min_width, text_x, chat_width)
        text_height == ClipTo(TEXT_AREA_HEIGHT, text_y, chat_height)
    IN  IF text_x >= chat_width \/ text_y >= chat_height
        THEN [raised |-> FALSE, bounds |-> <<>>]
        ELSE IF text_width <= 0 \/ text_height <= 0
        THEN [raised |-> TRUE, bounds |-> <<>>]
        ELSE [raised |-> FALSE,
              bounds |-> <<[x |-> text_x, y |-> text_y,
                            width |-> text_width, height |-> text_height]>>]

\* capture_chat_region (35-54): the crop of CHAT_AREA in physical pixels;
\* a second, smaller capture stands for any other image.
Captures ==
    {[w |-> (CHAT_X2 - CHAT_X1) * SCALE_FACTOR, h |-> (CHAT_Y2 - CHAT_Y1) * SCALE_FACTOR],
     [w |-> TEXT_AREA_WIDTH \div 2, h |-> TEXT_AREA_HEIGHT \div 2]}

\* Coordinates at 0 and within MaxMargin of the place where a region of
\* the given size starts to be clipped and of the border itself.
AxisPoints(limit, size) ==
    {n \in {0} \cup ((limit - size - MaxMargin)..(limit - size + MaxMargin))
               \cup ((limit - MaxMargin)..(limit + MaxMargin)) : n >= 0}

(***************************************************************************)
(* ActionAutomation.list_coordinates (src/action_automation.py 542-548).   *)
(* A value of the coordinate table is an (x, y) pair or a template path;   *)
(* len is what Python's len() gives for it: 2 for a pair, the number of    *)
(* characters for a path, which ends in ".png" and so has at least 4.      *)
(***************************************************************************)
PairValue == [kind |-> "pair", len |-> 2]

PathValues == [kind : {"png"}, len : {4, 29}]

\* config.COORDINATES (src/config.py 8-17), in its order.
ShippedCoordinates ==
    [i \in 1..8 |-> IF i = 5 THEN PairValue ELSE [kind |-> "png", len |-> 29]]

\* Line 547: `for name, (x, y) in COORDINATES.items()` unpacks every value
\* into two targets, which raises ValueError unless the value has exactly
\* two elements; the entries before it were printed (line 548).
list_coordinates(table) ==
    LET bad == {i \in DOMAIN table : table[i].len # 2}
    IN  [raised  |-> bad # {},
         printed |-> IF bad = {} THEN Len(table)
                     ELSE (CHOOSE i \in bad : \A j \in bad : i <= j) - 1]

(***************************************************************************)
(* The pure functions on their own, each called once on drawn inputs.      *)
(***************************************************************************)
MatchCalls ==
    UNION {[fn : {"find_avatar_by_template", "find_all_icon_coordinates",
                  "find_icon_coordinates"},
            file : {"ok"}, img : {i}, t : {t}, c : Thresholds,
            res : matchTemplate(i, t), f : {[num |-> 1, den |-> 1]},
            done : {FALSE}] : i \in Sizes, t \in Sizes}
    \cup UNION {[fn : {"find_icon_coordinates_scaled", "execute_click_action"},
                 file : {"ok"}, img : {i}, t : {t}, c : Thresholds,
                 res : matchTemplate(i, t),
                 f : {g \in ScalingFactors : g.num <= 3 /\ g.den <= 2},
                 done : {FALSE}] : i \in Sizes, t \in Sizes}
    \cup [fn : {"find_avatar_by_template", "find_all_icon_coordinates",
                "find_icon_coordinates", "find_icon_coordinates_scaled"},
          file : {"missing", "unreadable"}, img : {FitCase}, t : {FitCase},
          c : Thresholds, res : matchTemplate(FitCase, FitCase),
          f : {[num |-> 1, den |-> 1]}, done : {FALSE}]

DedupeCalls ==
    [fn : {"remove_duplicate_detections"},
     ds : UNION {[1..n -> AvatarDetections] : n \in 0..MaxDedupeLen},
     md : MinDistances, done : {FALSE}]

ConvertCalls ==
    [fn : {"round_trip"}, x : -MaxCoord..MaxCoord, y : -MaxCoord..MaxCoord,
     f : ScalingFactors, done : {FALSE}]

ClickPointCalls ==
    [fn : {"avatar_click_point"}, x : 0..MaxCoord, y : 0..MaxCoord,
     done : {FALSE}]

SubstituteCalls ==
    [fn : {"substitute"}, value : FieldValues, parameters : ParamMaps,
     done : {FALSE}]

\* Boxes of detections: top-left corner and size, as find_avatar_by_template
\* builds them (non-negative corner, template of at least one pixel).
AnalyzeCalls ==
    UNION {[fn : {"analyze_text_area"}, capture : {c},
            avatar : [x : {n \in 0..c.w : \E aw \in 1..2 :
                               n + aw + TEXT_AREA_OFFSET_X \in AxisPoints(c.w, TEXT_AREA_WIDTH)},
                      y : AxisPoints(c.h, TEXT_AREA_HEIGHT),
                      width : 1..2, height : {1}],
            done : {FALSE}] : c \in Captures}

\* Boxes of detections in the chat capture: find_avatar_by_template places
\* a template of w x h pixels at every corner where it fits (89-101).  The
\* sides are 1 to 3 pixels and the whole capture; the corners lie within
\* MaxMargin of the first and of the last placement.
DetectionClickCalls ==
    UNION {UNION {[fn : {"avatar_detection_click"}, capture : {c},
                   box : {b \in [x : (0..MaxMargin)
                                         \cup ((c.w - t[1] - MaxMargin)..(c.w - t[1])),
                                 y : (0..MaxMargin)
                                         \cup ((c.h - t[2] - MaxMargin)..(c.h - t[2])),
                                 width : {t[1]}, height : {t[2]}] :
                             /\ b.x >= 0 /\ b.x + t[1] <= c.w
                             /\ b.y >= 0 /\ b.y + t[2] <= c.h},
                   done : {FALSE}] :
                  t \in ((1..3) \cup {c.w}) \X ((1..3) \cup {c.h})} :
           c \in Captures}

ListCalls ==
    [fn : {"list_coordinates"},
     table : {ShippedCoordinates}
             \cup UNION {[1..n -> {PairValue} \cup PathValues] : n \in 0..MaxTableLen},
     done : {FALSE}]

InitFunctions ==
    /\ env = [automation |-> TRUE, icon_detection |-> TRUE,
              avatar_keyword |-> TRUE, api_key |-> TRUE]
    /\ Idle
    /\ NoPlans
    /\ call \in MatchCalls \cup DedupeCalls \cup ConvertCalls \cup ClickPointCalls
                \cup SubstituteCalls \cup AnalyzeCalls \cup ListCalls
                \cup DetectionClickCalls
    /\ ret = NoVerdict

match_call ==
    /\ call.fn \in {"find_avatar_by_template", "find_all_icon_coordinates",
                    "find_icon_coordinates", "find_icon_coordinates_scaled",
                    "execute_click_action"}
    /\ ~call.done
    /\ call' = [call EXCEPT !.done = TRUE]
    /\ ret' = CASE call.fn = "find_avatar_by_template" ->
                     find_avatar_by_template(call.file, call.t, call.c, call.res)
                [] call.fn = "find_all_icon_coordinates" ->
                     find_all_icon_coordinates(call.file, call.t, call.c, call.res)
                [] call.fn = "find_icon_coordinates" ->
                     find_icon_coordinates(call.file, call.t, call.c, call.res)
                [] call.fn = "find_icon_coordinates_scaled" ->
                     find_icon_coordinates_scaled(call.file, call.t, call.c,
                                                  call.res, call.f)
                [] OTHER ->
                     TemplateClick(call.file, call.t, call.c, call.res, call.f)
    /\ UNCHANGED <<env, lookup, interpVars, avatarVars, planVars>>

\* The list is resolved, and the result resolved once more.
dedupe_call ==
    /\ call.fn = "remove_duplicate_detections"
    /\ ~call.done
    /\ call' = [call EXCEPT !.done = TRUE]
    /\ ret' = [out   |-> remove_duplicate_detections(call.ds, call.md),
               again |-> remove_duplicate_detections(
                             remove_duplicate_detections(call.ds, call.md), call.md)]
    /\ UNCHANGED <<env, lookup, interpVars, avatarVars, planVars>>

\* Logical to physical and back.
convert_call ==
    /\ call.fn = "round_trip"
    /\ ~call.done
    /\ call' = [call EXCEPT !.done = TRUE]
    /\ ret' = [physical |-> logical_to_physical_coords(call.x, call.y, call.f),
               logical  |-> physical_to_logical_coords(
                                logical_to_physical_coords(call.x, call.y, call.f)[1],
                                logical_to_physical_coords(call.x, call.y, call.f)[2],
                                call.f)]
    /\ UNCHANGED <<env, lookup, interpVars, avatarVars, planVars>>

click_point_call ==
    /\ call.fn = "avatar_click_point"
    /\ ~call.done
    /\ call' = [call EXCEPT !.done = TRUE]
    /\ ret' = AvatarClickPoint(call.x, call.y)
    /\ UNCHANGED <<env, lookup, interpVars, avatarVars, planVars>>

\* One field of one record goes through the substitution loop.
substitute_call ==
    /\ call.fn = "substitute"
    /\ ~call.done
    /\ call' = [call EXCEPT !.done = TRUE]
    /\ ret' = SubstituteValue(call.value, call.parameters)
    /\ UNCHANGED <<env, lookup, interpVars, avatarVars, planVars>>

analyze_call ==
    /\ call.fn = "analyze_text_area"
    /\ ~call.done
    /\ call' = [call EXCEPT !.done = TRUE]
    /\ ret' = analyze_text_area_right_of_avatar(call.capture.w, call.capture.h,
                                                call.avatar)
    /\ UNCHANGED <<env, lookup, interpVars, avatarVars, planVars>>

\* The center of a detection (lines 99-100 of
\* avatar_message_block_detection.py) is the recommended click point
\* (calculate_click_coordinates, 171-200), converted and clicked.
detection_click_call ==
    /\ call.fn = "avatar_detection_click"
    /\ ~call.done
    /\ call' = [call EXCEPT !.done = TRUE]
    /\ ret' = AvatarClickPoint(call.box.x + (call.box.width \div 2),
                               call.box.y + (call.box.height \div 2))
    /\ UNCHANGED <<env, lookup, interpVars, avatarVars, planVars>>

list_call ==
    /\ call.fn = "list_coordinates"
    /\ ~call.done
    /\ call' = [call EXCEPT !.done = TRUE]
    /\ ret' = list_coordinates(call.table)
    /\ UNCHANGED <<env, lookup, interpVars, avatarVars, planVars>>

NextFunctions ==
    \/ detection_click_call
    \/ list_call
    \/ analyze_call
    \/ substitute_call
    \/ match_call
    \/ dedupe_call
    \/ convert_call
    \/ click_point_call

SpecFunctions == InitFunctions /\ [][NextFunctions]_vars

(***************************************************************************)
(* Plan instantiation and the objects it shares (execute_action_plan       *)
(* 478-508, _scroll_and_retry_keyword_search 320-325).  Python dicts are   *)
(* objects with identity: heap is the sequence of the dicts alive, a dict  *)
(* is named by its index, and a list of dicts is a sequence of indices.    *)
(* The dicts of the stored plan are the first ones of the heap and live as *)
(* long as the module; the dicts a run builds are dropped when it returns. *)
(***************************************************************************)
StrValue(text) == [type |-> "str", text |-> text]

NumValue(text) == [type |-> "num", text |-> text]

\* The records of ACTION_PLANS['activity'] that carry placeholders or none:
\* an avatar keyword click (config.py line 35; keywords may also be a list,
\* and "n" is the number MaxScrollAttempts) and a record without the keys of
\* the search.
StoredAvatarRecords ==
    [action : {StrValue(<<"avatar_keyword_click">>)},
     keywords : {{StrValue(<<"{k}">>)}, {[type |-> "list", text |-> <<"{k}">>]}},
     description : {{StrValue(<<"a", "{k}">>)}},
     max_scroll_attempts : {{NumValue(<<"n">>)}},
     current_scroll_attempt : {Absent}]

StoredOtherRecords ==
    [action : {StrValue(<<"wait">>)},
     keywords : {Absent},
     description : {{StrValue(<<"{m}">>)}},
     max_scroll_attempts : {Absent},
     current_scroll_attempt : {Absent}]

StoredPlans ==
    {<<a>> : a \in StoredAvatarRecords}
    \cup {<<a, o>> : a \in StoredAvatarRecords, o \in StoredOtherRecords}
    \cup {<<o, a>> : o \in StoredOtherRecords, a \in StoredAvatarRecords}

\* The parameters of a run.
PlanParameters ==
    {<<>>,
     <<[key |-> "k", value |-> StrValue(<<"x">>)]>>,
     <<[key |-> "k", value |-> NumValue(<<"320">>)]>>,
     <<[key |-> "k", value |-> StrValue(<<"{m}">>)],
       [key |-> "m", value |-> StrValue(<<"x">>)]>>}

\* Lines 483-494 on one field: an absent key stays absent.
SubstituteField(field, params) == {SubstituteValue(v, params) : v \in field}

\* Lines 482-494: the dict built from one record of the stored plan.  The
\* scroll counter is an int whenever it is present.
SubstituteAction(d, params) ==
    [action |-> SubstituteValue(d.action, params),
     keywords |-> SubstituteField(d.keywords, params),
     description |-> SubstituteField(d.description, params),
     max_scroll_attempts |-> SubstituteField(d.max_scroll_attempts, params),
     current_scroll_attempt |-> d.current_scroll_attempt]

InstantiatePlan_mut(h, ids, params) ==
    [heap |-> [id \in DOMAIN h |->
                   IF \E i \in DOMAIN ids : ids[i] = id
                   THEN SubstituteAction(h[id], params) ELSE h[id]],
     plan |-> ids]

\* Lines 480-495: substituted_action = {} is a new dict for every record,
\* appended to the new list substituted_plan.
InstantiatePlan(h, ids, params) ==
    [heap |-> h \o [i \in DOMAIN ids |-> SubstituteAction(h[ids[i]], params)],
     plan |-> [i \in DOMAIN ids |-> Len(h) + i]]

RetryAction_mut(h, id) ==
    [heap |-> [h EXCEPT ![id].current_scroll_attempt =
                            {Get(h[id].current_scroll_attempt, 0) + 1}],
     frame |-> id]

\* Lines 321-322: action.copy() is a new dict, and the counter is set in it.
RetryAction(h, id) ==
    [heap |-> Append(h, [h[id] EXCEPT !.current_scroll_attempt =
                                          {Get(h[id].current_scroll_attempt, 0) + 1}]),
     frame |-> Len(h) + 1]

\* Lines 152-153 and the tests at 167 and 286, on a dict whose
\* max_scroll_attempts, if present, is MaxScrollAttempts.
ScrollsLeft(d) ==
    Get(d.current_scroll_attempt, 0)
        < (IF d.max_scroll_attempts = Absent THEN DEFAULT_MAX_SCROLL_ATTEMPTS
           ELSE MaxScrollAttempts)

IsAvatarDict(d) == d.action = StrValue(<<"avatar_keyword_click">>)

InitPlans ==
    /\ env \in {e \in Envs : e.automation}
    /\ Idle
    /\ call = NoCall
    /\ ret = NoVerdict
    /\ \E plan \in StoredPlans :
           /\ heap = plan
           /\ ACTION_PLANS = [i \in DOMAIN plan |-> i]

\* execute_action_plan 471-503: a run starts and builds its plan.
instantiate_plan ==
    /\ ppc = "ready"
    /\ Len(runlog) < MaxRuns
    /\ \E params \in PlanParameters :
           LET made == InstantiatePlan(heap, ACTION_PLANS, params)
           IN  /\ heap' = made.heap
               /\ substituted_plan' = made.plan
               /\ runlog' = Append(runlog, [parameters |-> params, retries |-> 0])
    /\ ppc' = "running"
    /\ pstep' = 0
    /\ UNCHANGED <<env, lookup, interpVars, avatarVars, call, ret, ACTION_PLANS, frame>>

\* Lines 505-508: the next record of the run is handed to its handler.
dispatch_step ==
    /\ ppc = "running"
    /\ pstep < Len(substituted_plan)
    /\ frame' = substituted_plan[pstep + 1]
    /\ ppc' = "in_action"
    /\ UNCHANGED <<env, lookup, interpVars, avatarVars, call, ret, heap, ACTION_PLANS,
                   runlog, substituted_plan, pstep>>

\* Lines 167-168 and 286-287 with 320-325: a search pass that accepted
\* nothing scrolls and calls the handler again on a copy of its dict.
scroll_and_retry ==
    /\ ppc = "in_action"
    /\ IsAvatarDict(heap[frame])
    /\ ScrollsLeft(heap[frame])
    /\ LET retry == RetryAction(heap, frame)
       IN  /\ heap' = retry.heap
           /\ frame' = retry.frame
    /\ runlog' = [runlog EXCEPT ![Len(runlog)].retries = @ + 1]
    /\ UNCHANGED <<env, lookup, interpVars, avatarVars, call, ret, ACTION_PLANS,
                   substituted_plan, ppc, pstep>>

\* The handler returns True: the loop goes on with the next record.
action_succeeds ==
    /\ ppc = "in_action"
    /\ frame' = 0
    /\ ppc' = "running"
    /\ pstep' = pstep + 1
    /\ UNCHANGED <<env, lookup, interpVars, avatarVars, call, ret, heap, ACTION_PLANS,
                   runlog, substituted_plan>>

\* The dicts of a run are unreachable once execute_action_plan returned.
RunReturns ==
    /\ heap' = SubSeq(heap, 1, Len(ACTION_PLANS))
    /\ substituted_plan' = <<>>
    /\ frame' = 0
    /\ ppc' = "ready"
    /\ pstep' = 0
    /\ UNCHANGED <<env, lookup, interpVars, avatarVars, call, ret, ACTION_PLANS, runlog>>

\* Lines 508-510: the handler returns a failure value and the run stops.
action_fails ==
    /\ ppc = "in_action"
    /\ RunReturns

\* Lines 512-514: every record was executed.
plan_completes ==
    /\ ppc = "running"
    /\ pstep = Len(substituted_plan)
    /\ RunReturns

NextPlans ==
    \/ instantiate_plan
    \/ dispatch_step
    \/ scroll_and_retry
    \/ action_succeeds
    \/ action_fails
    \/ plan_completes

SpecPlans == InitPlans /\ [][NextPlans]_vars

(***************************************************************************)
(* Properties.                                                             *)
(***************************************************************************)
IsAvatarAction == action.action = "avatar_keyword_click"

\* 1, 2, ..., n
Upto(n) == [i \in 1..n |-> i]

\* C1: fail-fast.  A step that returned a failure value is the last step
\* the plan invoked: the run is Failed (execute_action_plan returned
\* False), execute_action was called for steps 1..i and for no later step,
\* and the values the earlier steps returned stand as they were.
C1_FailFast ==
    entry = "plan" =>
        /\ \A i \in DOMAIN results :
              results[i] = "False" =>
                  /\ i = Len(results)
                  /\ pc = "Failed"
                  /\ invoked = Upto(i)
        /\ pc = "Failed" /\ results # <<>> =>
              /\ results[Len(results)] = "False"
              /\ Len(invoked) = Len(results)

\* A plan failed at its second step after a first step that succeeded,
\* with room for a third step that was never invoked.
C1_Witness ==
    /\ entry = "plan"
    /\ pc = "Failed"
    /\ results = <<"True", "False">>
    /\ invoked = <<1, 2>>
    /\ step < MaxPlanLen

\* C2: Completed is reached only when every step of the plan was
\* dispatched exactly once in plan order, each after the one before it
\* had returned, and each returned success (True or a coordinate dict).
C2_CompletedOnlyAfterAllSucceed ==
    entry = "plan" =>
        /\ invoked = Upto(Len(invoked))
        /\ Len(invoked) = step
        /\ Len(results) <= Len(invoked)
        /\ Len(invoked) <= Len(results) + 1
        /\ pc = "InAction" => Len(invoked) = Len(results) + 1
        /\ pc = "Completed" =>
              /\ Len(results) = Len(invoked)
              /\ \A i \in DOMAIN results : results[i] \in {"True", "Coords"}

\* A plan of MaxPlanLen steps completed, its last step having returned a
\* coordinate dict.
C2_Witness ==
    /\ entry = "plan"
    /\ pc = "Completed"
    /\ Len(results) = MaxPlanLen
    /\ results[Len(results)] = "Coords"

\* C3: the avatar keyword search clicks, returns True or returns a
\* coordinate dict only for an accepted detection, and a classified
\* detection is accepted exactly when its verdict is related (is_related or
\* is_related_to_any) with confidence >= 70: 69 and (related, 50) are
\* rejected, 70 and 71 are accepted.
C3_ThresholdGuardsAcceptance ==
    IsAvatarAction =>
        /\ (clicks > 0 \/ result \in {"True", "Coords"}) => accepted # 0
        /\ classified # <<>> =>
              (accepted # 0 <=>
                  /\ TRUE \in verdict.is_related \cup verdict.is_related_to_any
                  /\ verdict.confidence >= 70)

\* A detection whose verdict is related with confidence exactly 70 was
\* accepted and clicked.
C3_Witness ==
    /\ IsAvatarAction
    /\ accepted # 0
    /\ verdict.confidence = 70
    /\ clicks = 1
    /\ result = "True"

(***************************************************************************)
(* Gateway failure kinds of a call, read off its input.                    *)
(***************************************************************************)
MissingCredentials(c) == ~c.apiKey
NetworkFailure(c)     == c.resp.net \in {"connection_error", "timeout"}
Non200(c)             == c.resp.net = "ok" /\ c.resp.status # 200
Answered(c)           == c.resp.net = "ok" /\ c.resp.status = 200
\* The HTTP body is no JSON, or holds no choice.
BadEnvelope(c)        == Answered(c) /\ c.resp.shape \in {"not_json", "no_choices"}
\* The answer text, code fence removed, is JSON but no JSON object.
NotAnObject(c) ==
    /\ Answered(c)
    /\ c.resp.shape = "content"
    /\ c.resp.content.fence \in {"none", "json", "generic"}
    /\ c.resp.content.payload.kind = "array"
\* The answer text is no JSON: plain text, or a fence that is not removed.
NotJsonText(c) ==
    /\ Answered(c)
    /\ c.resp.shape = "content"
    /\ \/ c.resp.content.payload.kind = "text"
       \/ c.resp.content.fence \in {"json_unclosed", "generic_short"}

NotRelatedZero(v) ==
    /\ TRUE \notin v.is_related \cup v.is_related_to_any
    /\ v.confidence = 0

C5_NoClickWhenReturningCoordinates ==
    (IsAvatarAction /\ TRUE \in action.return_coordinates) => clicks = 0

\* C6: when every pass completes without a qualifying detection (no avatar
\* detected, or every verdict below the threshold) and every scroll
\* succeeds, the search ends after exactly max_scroll_attempts + 1 passes
\* (default 6: 7 passes) with failure; no invocation runs more passes than
\* that or scrolls more than max_scroll_attempts times.
C6_ScrollRetryBound ==
    IsAvatarAction =>
        LET max == IF action.max_scroll_attempts = {} THEN 6
                   ELSE CHOOSE n \in action.max_scroll_attempts : TRUE
        IN  /\ passes <= max + 1
            /\ scrolls <= max
            /\ (apc = "done" /\ message \in {"no_avatars", "exhausted"}) =>
                  /\ passes = max + 1
                  /\ scrolls = max
                  /\ result = "False"
                  /\ clicks = 0

\* A search with max_scroll_attempts = 2 ended in failure after 3 passes;
\* one with the default ended after 7.
C6_Witness ==
    /\ IsAvatarAction
    /\ apc = "done"
    /\ result = "False"
    /\ message = "exhausted"
    /\ action.max_scroll_attempts = {2}
    /\ passes = 3

C6_WitnessDefault ==
    /\ IsAvatarAction
    /\ apc = "done"
    /\ message = "no_avatars"
    /\ action.max_scroll_attempts = {}
    /\ passes = 7

\* C7 as stated: no exception leaves execute_action.
C7_NoExceptionCrossesActionBoundary == pc # "Raised"

\* A step of the scan loop that classified the detection at idx and did
\* not accept it (gateway failure or verdict below the threshold).
RejectedStep ==
    /\ pc = "InAction"
    /\ apc = "scan"
    /\ classified' = Append(classified, idx)
    /\ accepted' = 0

\* C8: a gateway failure or a verdict below the threshold for one
\* detection aborts neither the action nor the plan: the scan goes on with
\* the next detection of the pass, and after the last detection the
\* scroll-retry branch runs (a scroll when attempts remain, else the
\* exhausted failure); nothing is raised and nothing is clicked.
C8_RejectedCandidateDoesNotAbort ==
    [][RejectedStep =>
          /\ pc' # "Raised"
          /\ clicks' = clicks
          /\ detections' = detections
          /\ IF idx < Len(detections)
             THEN /\ pc' = "InAction"
                  /\ apc' = "scan"
                  /\ idx' = idx + 1
             ELSE \/ /\ pc' = "InAction"
                     /\ apc' = "scroll"
                     /\ attempt < MaxScroll(action)
                  \/ /\ pc' = "Returned"
                     /\ message' = "exhausted"
                     /\ attempt >= MaxScroll(action)]_vars

\* The gateway failed for the first detection of a pass (zero-confidence
\* failure verdict) and the scan stands at the second detection.
C8_Witness ==
    /\ IsAvatarAction
    /\ entry = "plan"
    /\ pc = "InAction"
    /\ apc = "scan"
    /\ Len(detections) = 2
    /\ classified = <<1>>
    /\ idx = 2
    /\ verdict.error
    /\ verdict.confidence = 0
    /\ accepted = 0

\* C9: within a pass the detections are classified in detection order
\* whatever their avatar confidence, the accepted detection is the last
\* one classified, and acceptance ends the action: no later detection is
\* classified, no scroll and no further pass follows.
C9_InOrderScan ==
    IsAvatarAction =>
        /\ classified = Upto(Len(classified))
        /\ Len(classified) <= Len(detections)
        /\ apc = "scan" => Len(classified) = idx - 1
        /\ accepted # 0 =>
              /\ accepted = Len(classified)
              /\ apc = "done"
              /\ pc # "InAction"
              /\ message \in {"clicked", "exception"}

C9_AcceptanceEndsScan ==
    [][(IsAvatarAction /\ accepted # 0 /\ invoked' = invoked /\ pc' # "Ready"
            /\ entry' = entry) =>
          /\ classified' = classified
          /\ scrolls' = scrolls
          /\ passes' = passes
          /\ accepted' = accepted
          /\ clicks' = clicks]_vars

\* The detection classified by a scan step is accepted exactly when its
\* verdict meets the threshold, so every detection classified before the
\* accepted one fell short of it.
C9_AcceptedIffQualifies ==
    [][(pc = "InAction" /\ apc = "scan" /\ classified' # classified) =>
          /\ classified' = Append(classified, idx)
          /\ accepted = 0
          /\ (accepted' = idx) = MeetsThreshold(verdict')
          /\ accepted' \in {0, idx}]_vars

C9_FirstQualifyingAccepted ==
    []C9_InOrderScan /\ C9_AcceptedIffQualifies /\ C9_AcceptanceEndsScan

\* The first detection was accepted while a second detection with a higher
\* avatar confidence was never classified, and scroll attempts remained.
C9_Witness ==
    /\ IsAvatarAction
    /\ accepted = 1
    /\ classified = <<1>>
    /\ Len(detections) = 2
    /\ detections[2] > detections[1]
    /\ attempt = 0
    /\ scrolls = 0
    /\ action.max_scroll_attempts = {2}

\* The coordinate names no entry of the table, or is neither a string nor
\* a two-element pair.
BadCoordinate(c) ==
    \/ c.type = "str" /\ c.name \notin {"play_button", "any_place", "bad_entry"}
    \/ c.type \notin {"str", "pair"}

\* C10: a Click whose coordinate is an unknown name or a malformed value
\* returns failure without a pointer click; in a plan the run is then
\* Failed and no later step is invoked.
C10_BadCoordinateFailsStep ==
    (action.action = "click" /\ BadCoordinate(action.coordinate)) =>
        /\ clicks = 0
        /\ pc \in {"InAction", "Returned", "Failed"}
        /\ pc # "InAction" =>
              /\ result = "False"
              /\ message \in {"unknown_coordinate", "invalid_coordinate", "cannot_click"}
        /\ pc = "Failed" =>
              /\ results[Len(results)] = "False"
              /\ Len(invoked) = Len(results)
              /\ Len(invoked) = step

\* A plan whose first step clicks an unknown coordinate name is Failed
\* after that step.
C10_Witness ==
    /\ entry = "plan"
    /\ pc = "Failed"
    /\ action.action = "click"
    /\ action.coordinate = [type |-> "str", name |-> "missing_name"]
    /\ message = "unknown_coordinate"
    /\ invoked = <<1>>

\* A matcher was called on a readable template and cv2.matchTemplate
\* returned a score map.
Matched(fns) ==
    /\ call.fn \in fns
    /\ call.done
    /\ call.file = "ok"
    /\ ~call.res.raised

Placements == DOMAIN call.res.score

\* C11: template matching is boundary-inclusive.  All-matches mode returns
\* one detection for exactly the placements whose score is >= the
\* threshold (a score equal to the threshold matches); best-match mode
\* returns a point iff the maximum score is >= the threshold, and the
\* point is the one of a placement with the maximum score.
C11_BoundaryInclusiveMatching ==
    /\ Matched({"find_avatar_by_template"}) =>
          /\ {<<ret.found[i].x, ret.found[i].y>> : i \in DOMAIN ret.found}
               = {<<PosX(call.res, k), PosY(call.res, k)>> :
                     k \in {j \in Placements : call.res.score[j] >= call.c}}
          /\ Len(ret.found) = Cardinality({j \in Placements : call.res.score[j] >= call.c})
          /\ \A i \in DOMAIN ret.found : ret.found[i].confidence >= call.c
    /\ Matched({"find_all_icon_coordinates"}) =>
          /\ {<<ret.found[i].center_x, ret.found[i].center_y>> : i \in DOMAIN ret.found}
               = {<<PosX(call.res, k) + (call.t.w \div 2),
                    PosY(call.res, k) + (call.t.h \div 2)>> :
                     k \in {j \in Placements : call.res.score[j] >= call.c}}
          /\ Len(ret.found) = Cardinality({j \in Placements : call.res.score[j] >= call.c})
    /\ Matched({"find_icon_coordinates", "find_icon_coordinates_scaled"}) =>
          /\ (ret.found # <<>>) = (\E k \in Placements : call.res.score[k] >= call.c)
          /\ ret.found # <<>> =>
                \E k \in Placements :
                    /\ \A j \in Placements : call.res.score[j] <= call.res.score[k]
                    /\ <<ret.found[1].center_x, ret.found[1].center_y>> =
                         physical_to_logical_coords(
                             PosX(call.res, k) + (call.t.w \div 2),
                             PosY(call.res, k) + (call.t.h \div 2), call.f)

\* find_avatar_by_template returned a detection whose score equals the
\* threshold and left out a placement scoring below it.
C11_Witness ==
    /\ Matched({"find_avatar_by_template"})
    /\ \E i \in DOMAIN ret.found : ret.found[i].confidence = call.c
    /\ \E k \in Placements : call.res.score[k] < call.c
    /\ Len(ret.found) >= 2

\* The template exceeds the capture in width or in height.
TemplateLarger == call.t.w > call.img.w \/ call.t.h > call.img.h

\* C12 as stated: with a template larger than the capture in either
\* dimension every matcher returns an empty result and raises nothing.
C12_OversizedTemplateGivesEmptyResult ==
    (/\ call.fn \in {"find_avatar_by_template", "find_all_icon_coordinates",
                     "find_icon_coordinates", "find_icon_coordinates_scaled"}
     /\ call.done
     /\ call.file = "ok"
     /\ TemplateLarger)
        => (~ret.raised /\ ret.found = <<>>)

Deduped == call.fn = "remove_duplicate_detections" /\ call.done

\* Elements of a sequence
Members(seq) == {seq[i] : i \in DOMAIN seq}

\* C13 as stated: remove_duplicate_detections is idempotent on its own
\* output.
C13_DedupeIdempotent == Deduped => ret.again = ret.out

\* A set of input detections that are pairwise within min_distance and
\* that no further input detection can join.
IsCluster(S) ==
    /\ S # {}
    /\ S \subseteq Members(call.ds)
    /\ \A a, b \in S : a # b => TooClose(a, b, call.md)
    /\ \A d \in Members(call.ds) \ S : \E a \in S : ~TooClose(a, d, call.md)

\* C14 as stated: of every cluster of mutually close detections exactly
\* one is kept, and it has the maximum confidence of the cluster.
C14_OnePerClusterWithMaxConfidence ==
    Deduped =>
        \A S \in SUBSET Members(call.ds) :
            IsCluster(S) =>
                /\ Cardinality(S \cap Members(ret.out)) = 1
                /\ \A k \in S \cap Members(ret.out) :
                      \A d \in S : d.confidence <= k.confidence

\* C19 as stated: no two detections of the returned list have centers
\* closer than min_distance.
C19_NoNearCoincidentPairRemains ==
    Deduped =>
        \A i, j \in DOMAIN ret.out :
            i # j => ~TooClose(ret.out[i], ret.out[j], call.md)

Abs(n) == IF n >= 0 THEN n ELSE -n

\* C15: coordinate round trip.  For integer (x, y) and a scaling factor
\* >= 1, converting to physical and back gives a point at most 1 away on
\* each axis, and the same point when the factor is an integer.
C15_CoordinateRoundTrip ==
    (call.fn = "round_trip" /\ call.done) =>
        /\ Abs(ret.logical[1] - call.x) <= 1
        /\ Abs(ret.logical[2] - call.y) <= 1
        /\ call.f.den = 1 => ret.logical = <<call.x, call.y>>

\* A fractional factor loses one unit on one axis and nothing on the other.
C15_Witness ==
    /\ call.fn = "round_trip"
    /\ call.done
    /\ call.f = [num |-> 3, den |-> 2]
    /\ call.x = 1
    /\ call.y = 2
    /\ ret.physical = <<1, 3>>
    /\ ret.logical = <<0, 2>>

Substituted == call.fn = "substitute" /\ call.done

\* The text a token stands for when every placeholder of a supplied
\* parameter is replaced by the string form of its value.
Expansion(tok, params) ==
    IF \E i \in DOMAIN params : Placeholder(params[i].key) = tok
    THEN params[CHOOSE i \in DOMAIN params : Placeholder(params[i].key) = tok].value.text
    ELSE <<tok>>

RECURSIVE ExpandAll(_, _)
ExpandAll(text, params) ==
    IF text = <<>> THEN <<>>
    ELSE Expansion(Head(text), params) \o ExpandAll(Tail(text), params)

NoLaterPlaceholder(params) ==
    \A i, j \in DOMAIN params :
        i < j => \A n \in DOMAIN params[i].value.text :
                    params[i].value.text[n] # Placeholder(params[j].key)

C17_ClicksAreLogical ==
    /\ (call.fn = "execute_click_action" /\ call.done /\ ret.clicked # <<>>) =>
          \E k \in Placements :
              /\ \A j \in Placements : call.res.score[j] <= call.res.score[k]
              /\ ret.clicked[1] * call.f.num
                    <= (PosX(call.res, k) + (call.t.w \div 2)) * call.f.den
              /\ (PosX(call.res, k) + (call.t.w \div 2)) * call.f.den
                    < (ret.clicked[1] + 1) * call.f.num
              /\ ret.clicked[2] * call.f.num
                    <= (PosY(call.res, k) + (call.t.h \div 2)) * call.f.den
              /\ (PosY(call.res, k) + (call.t.h \div 2)) * call.f.den
                    < (ret.clicked[2] + 1) * call.f.num
    /\ (call.fn = "avatar_click_point" /\ call.done) =>
          /\ ret.coordinates.physical_x = CHAT_X1 * SCALE_FACTOR + call.x
          /\ ret.coordinates.physical_y = CHAT_Y1 * SCALE_FACTOR + call.y
          /\ ret.clicked[1] * SCALE_FACTOR <= ret.coordinates.physical_x
          /\ ret.coordinates.physical_x < (ret.clicked[1] + 1) * SCALE_FACTOR
          /\ ret.clicked[2] * SCALE_FACTOR <= ret.coordinates.physical_y
          /\ ret.coordinates.physical_y < (ret.clicked[2] + 1) * SCALE_FACTOR

\* A template Click on a display scaled by 2: the best match, scoring
\* exactly the threshold, has its physical center at (1, 1) and the click
\* goes to (0, 0).
C17_Witness ==
    /\ call.fn = "execute_click_action"
    /\ call.done
    /\ call.f = [num |-> 2, den |-> 1]
    /\ call.img = [w |-> 2, h |-> 2]
    /\ call.t = [w |-> 2, h |-> 2]
    /\ ret.clicked = <<0, 0>>
    /\ call.res.score[1] = call.c

\* The avatar click for the chat-relative point (3, 4): physical
\* (1323, 294), clicked at (661, 147).
C17_WitnessAvatar ==
    /\ call.fn = "avatar_click_point"
    /\ call.done
    /\ call.x = 3
    /\ call.y = 4
    /\ ret.clicked = <<661, 147>>

\* C18: executing a plan never modifies the stored plan.  No step of a run
\* (instantiation, dispatch, scroll retry, return) changes a record of
\* ACTION_PLANS or the list itself, so the stored records are at all times
\* the ones of config.py, placeholders included and without a scroll
\* counter; the records of every run are the stored ones with the
\* parameters of that run substituted; and the dict a step hands to the
\* avatar search first carries scroll attempt 0.
C18_ExecutionLeavesStoredPlanUnchanged ==
    /\ [][/\ ACTION_PLANS' = ACTION_PLANS
          /\ \A i \in DOMAIN ACTION_PLANS :
                 heap'[ACTION_PLANS[i]] = heap[ACTION_PLANS[i]]]_vars
    /\ [](\A i \in DOMAIN ACTION_PLANS :
              heap[ACTION_PLANS[i]] \in StoredAvatarRecords \cup StoredOtherRecords)
    /\ [](ppc # "ready" =>
              /\ Len(substituted_plan) = Len(ACTION_PLANS)
              /\ \A i \in DOMAIN substituted_plan :
                     /\ substituted_plan[i] \notin {ACTION_PLANS[j] : j \in DOMAIN ACTION_PLANS}
                     /\ heap[substituted_plan[i]] =
                            SubstituteAction(heap[ACTION_PLANS[i]],
                                             runlog[Len(runlog)].parameters))
    /\ [][ppc = "running" /\ ppc' = "in_action" =>
              Get(heap'[frame'].current_scroll_attempt, 0) = 0]_vars

\* The second run of a plan, with parameters other than those of the first
\* run, which scrolled and retried: its avatar search was just handed its
\* record, with the keyword of this run in place of the placeholder.
C18_Witness ==
    /\ Len(runlog) = 2
    /\ runlog[1].retries > 0
    /\ runlog[1].parameters = <<[key |-> "k", value |-> StrValue(<<"x">>)]>>
    /\ runlog[2].parameters = <<[key |-> "k", value |-> NumValue(<<"320">>)]>>
    /\ ppc = "in_action"
    /\ frame = substituted_plan[pstep + 1]
    /\ IsAvatarDict(heap[frame])
    /\ heap[frame].keywords = {StrValue(<<"320">>)}
    /\ heap[frame].current_scroll_attempt = Absent
    /\ heap[ACTION_PLANS[pstep + 1]].keywords = {StrValue(<<"{k}">>)}

\* C20: scroll-retry ordering.  Within one avatar keyword search the attempt
\* counter equals the number of scrolls emitted; a scroll is pending only
\* after a pass that accepted nothing while the counter is below
\* max_scroll_attempts; pass n+1 starts only after scroll n, so exactly one
\* scroll lies between two consecutive passes; a scroll raises the counter
\* by exactly 1 and leads to the next pass; once a detection was accepted
\* the search is over, and a search that is over scrolls no more; a search
\* that left through its no-avatars or exhausted exit emitted exactly
\* max_scroll_attempts scrolls.
C20_ScrollRetryOrdering ==
    /\ [](IsAvatarAction =>
            /\ attempt = scrolls
            /\ passes \in {scrolls, scrolls + 1}
            /\ apc = "search" => passes = scrolls
            /\ apc = "scan" => passes = scrolls + 1
            /\ apc = "scroll" =>
                  /\ accepted = 0
                  /\ passes = scrolls + 1
                  /\ attempt < MaxScroll(action)
            /\ accepted # 0 => apc = "done"
            /\ (apc = "done" /\ message \in {"no_avatars", "exhausted"}) =>
                  /\ accepted = 0
                  /\ scrolls = MaxScroll(action))
    /\ [][/\ scrolls' > scrolls =>
                /\ apc = "scroll"
                /\ accepted = 0
                /\ attempt < MaxScroll(action)
                /\ scrolls' = scrolls + 1
                /\ attempt' = attempt + 1
                /\ passes' = passes
                /\ apc' = "search"
          /\ passes' > passes =>
                /\ apc = "search"
                /\ passes' = passes + 1
                /\ scrolls' = scrolls
                /\ passes = scrolls
          /\ apc = "done" => scrolls' <= scrolls]_vars

\* A search whose first pass accepted nothing scrolled once, and its second
\* pass accepted and clicked a detection: one scroll, two passes, and a
\* further scroll attempt left unused.
C20_Witness ==
    /\ IsAvatarAction
    /\ apc = "done"
    /\ accepted # 0
    /\ clicks = 1
    /\ scrolls = 1
    /\ passes = 2
    /\ attempt = 1
    /\ MaxScroll(action) = 2

\* C21: a Click on a named template coordinate looks the template up while
\* its step executes.  A lookup is made only by the running Click handler
\* of a template coordinate, in a plan only after every earlier step
\* returned success, and by no step of a plan that has failed or of plan
\* start-up; when the lookup gives no score or a best score below the
\* step's confidence (80 percent by default), the step returns failure and
\* no click is issued.
C21_TemplateLookupAtClickTime ==
    /\ [][(lookup' # lookup /\ lookup' # <<>>) =>
              /\ pc = "InAction"
              /\ action.action = "click"
              /\ action.coordinate.type = "str"
              /\ action.coordinate.name \in DOMAIN COORDINATES
              /\ COORDINATES[action.coordinate.name] = "png"
              /\ action' = action
              /\ lookup = <<>>
              /\ entry = "plan" =>
                    /\ Len(results) = step - 1
                    /\ \A i \in DOMAIN results :
                           results[i] \in {"True", "Coords"}]_vars
    /\ [][(pc \in {"Ready", "Running", "Failed", "Completed"}) =>
              lookup' \in {lookup, <<>>}]_vars
    /\ [](lookup # <<>> =>
              (lookup[1].best < Get(action.confidence, DEFAULT_CLICK_CONFIDENCE) =>
                   /\ pc \in {"Returned", "Failed"}
                   /\ result = "False"
                   /\ message = "icon_not_detected"
                   /\ clicks = 0))

\* The second step of a plan, after a first step that succeeded, looked its
\* template up, found a best score of 79 against the default confidence and
\* failed the plan without a click.
C21_Witness ==
    /\ entry = "plan"
    /\ pc = "Failed"
    /\ step = 2
    /\ results = <<"True", "False">>
    /\ action.action = "click"
    /\ action.confidence = Absent
    /\ lookup = <<[file |-> "ok", best |-> 79]>>
    /\ clicks = 0

\* Centers nearer than md, computed on the squares.
Near(a, b, md) ==
    (a.center_x - b.center_x) * (a.center_x - b.center_x)
        + (a.center_y - b.center_y) * (a.center_y - b.center_y) < md * md

\* The input of the call is a chain A, B, C in this order: A near B, B near
\* C, A not near C, and A and B have the same confidence.
ChainInput ==
    /\ Deduped
    /\ Len(call.ds) = 3
    /\ Near(call.ds[1], call.ds[2], call.md)
    /\ Near(call.ds[2], call.ds[3], call.md)
    /\ ~Near(call.ds[1], call.ds[3], call.md)
    /\ call.ds[1].confidence = call.ds[2].confidence

\* C22: remove_duplicate_detections depends on the order of its input.  For
\* every chain A, B, C whose first two detections have the same confidence,
\* the input order A, B, C and the input order B, A, C give results that
\* keep different detections: the first keeps A and C, the second keeps
\* one detection only.
C22_OrderDependentOnChains ==
    ChainInput =>
        /\ Members(ret.out) = {call.ds[1], call.ds[3]}
        /\ Len(remove_duplicate_detections(
                   <<call.ds[2], call.ds[1], call.ds[3]>>, call.md)) = 1
        /\ Members(remove_duplicate_detections(
                       <<call.ds[2], call.ds[1], call.ds[3]>>, call.md))
               # Members(ret.out)

\* The chain (0,0), (30,0), (60,0) of equal confidence with min_distance
\* 50: the order A, B, C returned A and C.
C22_Witness ==
    /\ ChainInput
    /\ call.md = DEFAULT_MIN_DISTANCE
    /\ call.ds = <<[center_x |-> 0, center_y |-> 0, confidence |-> 80],
                   [center_x |-> 30, center_y |-> 0, confidence |-> 80],
                   [center_x |-> 60, center_y |-> 0, confidence |-> 80]>>
    /\ Len(ret.out) = 2

\* C23: analyze_text_area_right_of_avatar never raises; it returns no
\* region iff the origin of the text area (avatar x + avatar width + 10,
\* avatar y) is at or beyond the right or the bottom border of the capture;
\* a region it returns lies inside the capture and is 1 to 420 pixels wide
\* and 1 to 222 pixels high.
C23_TextRegionClippedToCapture ==
    (call.fn = "analyze_text_area" /\ call.done) =>
        /\ ~ret.raised
        /\ ret.bounds = <<>> <=>
               \/ call.avatar.x + call.avatar.width + TEXT_AREA_OFFSET_X >= call.capture.w
               \/ call.avatar.y >= call.capture.h
        /\ \A i \in DOMAIN ret.bounds :
               /\ ret.bounds[i].x = call.avatar.x + call.avatar.width + TEXT_AREA_OFFSET_X
               /\ ret.bounds[i].y = call.avatar.y
               /\ ret.bounds[i].x + ret.bounds[i].width <= call.capture.w
               /\ ret.bounds[i].y + ret.bounds[i].height <= call.capture.h
               /\ ret.bounds[i].width \in 1..TEXT_AREA_WIDTH
               /\ ret.bounds[i].height \in 1..TEXT_AREA_HEIGHT

\* A region whose origin is one pixel inside the corner of the chat
\* capture: clipped to 1 x 1.
C23_Witness ==
    /\ call.fn = "analyze_text_area"
    /\ call.done
    /\ call.capture.w = (CHAT_X2 - CHAT_X1) * SCALE_FACTOR
    /\ ret.bounds # <<>>
    /\ ret.bounds[1].width = 1
    /\ ret.bounds[1].height = 1

\* C24: the avatar keyword search fails up front.  With the detection
\* modules loaded, a search without keywords ends at once with failure;
\* "no templates" is reported only for a search with keywords and without
\* a template list; and a search that ended in one of these two ways
\* returned failure with no search pass (no capture), no gateway call, no
\* scroll and no click.
C24_FailsUpFrontWithoutSideEffects ==
    (IsAvatarAction /\ env.avatar_keyword) =>
        /\ action.keywords = <<>> =>
              /\ apc \in {"idle", "done"}
              /\ apc = "done" => message = "no_keywords"
        /\ message = "no_templates" =>
              /\ apc = "done"
              /\ action.keywords # <<>>
              /\ action.avatar_templates = <<>>
        /\ (apc = "done" /\ message \in {"no_keywords", "no_templates"}) =>
              /\ result = "False"
              /\ passes = 0
              /\ detections = <<>>
              /\ classified = <<>>
              /\ verdict = NoVerdict
              /\ scrolls = 0
              /\ accepted = 0
              /\ clicks = 0

\* A search with keywords and no template list found no template in the
\* directory and returned failure.
C24_Witness ==
    /\ IsAvatarAction
    /\ pc = "Returned"
    /\ apc = "done"
    /\ message = "no_templates"
    /\ action.keywords = <<"320">>
    /\ result = "False"
    /\ passes = 0

\* C25 as stated: list_coordinates completes without error and prints one
\* entry per name, for every table of pairs and template paths.
C25_ListCoordinatesPrintsEveryName ==
    (call.fn = "list_coordinates" /\ call.done) =>
        /\ ~ret.raised
        /\ ret.printed = Len(call.table)

\* C26: a missing or unloadable template does not raise to the caller of
\* the action.  A Click whose template lookup met a missing or unreadable
\* file returned failure (icon not detected) without a click and without
\* an exception; an avatar keyword search whose templates are all missing
\* detects nothing in any pass, clicks nothing, raises nothing and, once
\* over, has returned failure.
C26_MissingTemplateFailsTheAction ==
    /\ \A i \in DOMAIN lookup :
           lookup[i].file # "ok" =>
               /\ lookup[i].best = 0
               /\ pc \in {"Returned", "Failed"}
               /\ result = "False"
               /\ message = "icon_not_detected"
               /\ clicks = 0
    /\ (IsAvatarAction /\ action.avatar_templates = <<"missing.png">>) =>
           /\ pc # "Raised"
           /\ detections = <<>>
           /\ classified = <<>>
           /\ accepted = 0
           /\ clicks = 0
           /\ apc = "done" => result = "False"

\* A search on a missing template ended after its last pass with failure.
C26_Witness ==
    /\ IsAvatarAction
    /\ action.avatar_templates = <<"missing.png">>
    /\ apc = "done"
    /\ message = "no_avatars"
    /\ result = "False"
    /\ passes = 3

\* A Click on a template file that does not exist failed its step.
C26_WitnessClick ==
    /\ action.action = "click"
    /\ lookup = <<[file |-> "missing", best |-> 0]>>
    /\ pc = "Failed"
    /\ clicks = 0

\* C27 as stated: the text region classified for a detection is cropped
\* from the capture its pass found the detection in (capture number 1 of
\* the pass), and no further capture is taken in the pass.
C27_RegionCroppedFromDetectionCapture ==
    (IsAvatarAction /\ cropped # 0) =>
        /\ cropped = 1
        /\ captures = 1

\* C28: one avatar keyword search issues at most one pointer click over all
\* its passes; a click belongs to an accepted detection and ends the
\* search; a search that returned failure issued no click.
C28_AtMostOneClickPerSearch ==
    /\ [](IsAvatarAction =>
            /\ clicks <= 1
            /\ clicks = 1 => (accepted # 0 /\ apc = "done")
            /\ (apc = "done" /\ result = "False") => clicks = 0)
    /\ [][(IsAvatarAction /\ clicks' > clicks) =>
              /\ clicks = 0
              /\ apc = "scan"
              /\ apc' = "done"]_vars

\* A search that scrolled twice accepted a detection in its third pass and
\* clicked once.
C28_Witness ==
    /\ IsAvatarAction
    /\ apc = "done"
    /\ passes = 3
    /\ scrolls = 2
    /\ accepted # 0
    /\ clicks = 1
    /\ result = "Coords"

\* C29: for every detection whose template fits inside the captured chat
\* region, the logical point the avatar keyword search clicks, which is
\* also the point of the coordinate dict it returns, lies inside CHAT_AREA:
\* 660 <= x <= 935 and 145 <= y <= 496.
C29_ClickInsideChatArea ==
    (/\ call.fn = "avatar_detection_click"
     /\ call.done
     /\ call.capture.w = (CHAT_X2 - CHAT_X1) * SCALE_FACTOR
     /\ call.capture.h = (CHAT_Y2 - CHAT_Y1) * SCALE_FACTOR) =>
        /\ ret.clicked = <<ret.coordinates.x, ret.coordinates.y>>
        /\ CHAT_X1 <= ret.clicked[1]
        /\ ret.clicked[1] <= CHAT_X2
        /\ CHAT_Y1 <= ret.clicked[2]
        /\ ret.clicked[2] <= CHAT_Y2

\* A one-pixel template matched at the last placement of the capture,
\* (549, 701): the click goes to (934, 495).
C29_Witness ==
    /\ call.fn = "avatar_detection_click"
    /\ call.done
    /\ call.box = [x |-> 549, y |-> 701, width |-> 1, height |-> 1]
    /\ ret.clicked = <<934, 495>>

\* C30: a scroll gesture that cannot be performed ends the avatar keyword
\* search with failure at once.  The step that fails to scroll returns
\* False without a click, and as long as its message stands the search has
\* returned False, made no pass beyond those that followed a successful
\* scroll, accepted no detection and clicked nothing, even though scroll
\* attempts remain.
C30_FailedScrollIgnoresAttemptsLeft ==
    /\ [][((pc = "InAction") /\ (apc = "scroll") /\ (scrolls' = scrolls)) =>
              /\ message' \in {"scroll_failed", "cannot_scroll"}
              /\ apc' = "done"
              /\ pc' = "Returned"
              /\ result' = "False"
              /\ passes' = passes
              /\ classified' = classified
              /\ captures' = captures
              /\ clicks' = 0]_vars
    /\ [](message \in {"scroll_failed", "cannot_scroll"} =>
              /\ apc = "done"
              /\ result = "False"
              /\ passes = scrolls + 1
              /\ accepted = 0
              /\ clicks = 0)

\* The first scroll of a search that may scroll twice raises: one pass was
\* made, nothing was scrolled, and the search is over.
C30_Witness ==
    /\ message = "scroll_failed"
    /\ IsAvatarAction
    /\ MaxScroll(action) = MaxScrollAttempts
    /\ attempt = 0
    /\ ScrollsRemain(action, attempt)
    /\ passes = 1
    /\ scrolls = 0
    /\ apc = "done"
    /\ result = "False"

====
